---- MODULE Spec2Model ----
(***************************************************************************)
(* A model of scanoss/auditcmd: the scan-result store, the audit ledger    *)
(* (accept / ignore dialogs, saveAuditDecision, saveToFile), and the CSV   *)
(* export engine (performCSVExport and its deep-link helpers).             *)
(*                                                                         *)
(* Go strings are modelled as sequences of tokens.  A token is a TLA+      *)
(* string standing for a run of characters the code never looks inside     *)
(* ("b.go", "acme", "10"), or for one character the code does look for     *)
(* ("/", "@", "?", ",", "-", " ").  strings.Split, HasPrefix, Contains,    *)
(* TrimSpace, ToLower and the two regular expressions of export.go are     *)
(* operators over such sequences.                                          *)
(***************************************************************************)
EXTENDS Integers, Sequences, FiniteSets, TLC

VARIABLES
    Files,              \* app.ScanData.Files : path -> sequence of FileMatch
    CurrentMatch,       \* app.CurrentMatch   : NoMatch or <<path, index>>
    PendingDecision,    \* app.PendingDecision
    ActivePane,         \* app.ActivePane     : "tree" | "files"
    ViewMode,           \* app.ViewMode       : "list" | "content"
    ViewFilter,         \* app.ViewFilter     : "all" | "matched" | "pending"
    selectedNode,       \* app.TreeState.selectedNode : Name and Path of the node
    FileTree,           \* app.FileTree       : the tree made by buildFileTree
    expandedDirs,       \* app.TreeState.expandedDirs : the paths mapped to true
    displayLines,       \* app.TreeState.displayLines : sequence of rows
    TreeList,           \* app.TreeList (ScrollableList)
    TreeViewType,       \* app.TreeViewType   : "directories" | "purls"
    PURLRanking,        \* app.PURLRanking    : sequence of PURLRankEntry
    CurrentFileList,    \* app.CurrentFileList
    SelectedFileIndex,  \* app.SelectedFileIndex (0-based, as in the code)
    FileList,           \* app.FileList (ScrollableList)
    views,              \* names of the dialog views that exist in the gocui Gui
    currentView,        \* name of the gocui current view
    disk,               \* contents of the result file app.FilePath
    saveResult,         \* the error value of the last saveToFile call
    exports,            \* the export goroutines: sequence of task records
    userEvents,         \* functions queued with g.Update, not yet run
    csvFile,            \* contents of the CSV file on disk (sequence of records)
    exportKeys,         \* the export_dialog view has its ENTER / ESC bindings
    generatedWithAPIKey, \* <<>>, or <<b>> once isGeneratedWithAPIKey returned b
    defaultBranchCache, \* export.go defaultBranchCache : repoKey -> branch
    lookups             \* remote default-branch requests issued so far

ledgerVars == <<Files, CurrentMatch, PendingDecision, ActivePane, ViewMode,
                ViewFilter, selectedNode, TreeViewType, PURLRanking,
                FileTree, expandedDirs, displayLines, TreeList,
                CurrentFileList, SelectedFileIndex,
                FileList, views, currentView, disk, saveResult>>
exportVars == <<exports, userEvents, csvFile, exportKeys, defaultBranchCache,
                lookups, generatedWithAPIKey>>
vars == <<Files, CurrentMatch, PendingDecision, ActivePane, ViewMode,
          ViewFilter, selectedNode, TreeViewType, PURLRanking,
          FileTree, expandedDirs, displayLines, TreeList,
          CurrentFileList, SelectedFileIndex,
          FileList, views, currentView, disk, saveResult,
          exports, userEvents, csvFile, exportKeys, defaultBranchCache,
          lookups, generatedWithAPIKey>>

----------------------------------------------------------------------------
(* Bounds *)

\* entries of all decision histories together, the loaded ones included
MaxDecisions == 3
\* export goroutines started in one behaviour
MaxExports == 2
\* items of a ScrollableList taken on its own
MaxItems == 4
\* height of the view such a list is rendered in
MaxViewHeight == 3

----------------------------------------------------------------------------
(* Go strings as token sequences *)

Str(t) == <<t>>
EmptyStr == <<>>

\* fmt's %d for the small positive numbers that are printed
Itoa(i) == IF i <= 6 THEN <<"1", "2", "3", "4", "5", "6">>[i] ELSE "7+"

WhiteSpace == {" ", "\n", "\t"}

RECURSIVE TrimLeft(_)
TrimLeft(s) ==
    IF s # <<>> /\ Head(s) \in WhiteSpace THEN TrimLeft(Tail(s)) ELSE s

RECURSIVE TrimRight(_)
TrimRight(s) ==
    IF s # <<>> /\ s[Len(s)] \in WhiteSpace
    THEN TrimRight(SubSeq(s, 1, Len(s) - 1)) ELSE s

\* strings.TrimSpace
TrimSpace(s) == TrimRight(TrimLeft(s))

\* strings.HasPrefix
HasPrefix(s, p) == Len(s) >= Len(p) /\ SubSeq(s, 1, Len(p)) = p

\* strings.Contains(s, sep) for a one-character sep
Contains(s, sep) == \E i \in DOMAIN s : s[i] = sep

\* strings.Split(s, sep) for a one-character sep: always at least one part
RECURSIVE SplitFrom(_, _, _)
SplitFrom(s, sep, cur) ==
    IF s = <<>> THEN <<cur>>
    ELSE IF Head(s) = sep THEN <<cur>> \o SplitFrom(Tail(s), sep, <<>>)
    ELSE SplitFrom(Tail(s), sep, Append(cur, Head(s)))

Split(s, sep) == SplitFrom(s, sep, <<>>)

\* strings.Join(parts, sep) for a token sequence sep
RECURSIVE Join(_, _)
Join(parts, sep) ==
    IF parts = <<>> THEN <<>>
    ELSE IF Len(parts) = 1 THEN parts[1]
    ELSE parts[1] \o sep \o Join(Tail(parts), sep)

\* strings.ToLower, on the tokens that carry upper-case letters
LowerTok(t) ==
    CASE t = "Identified" -> "identified"
      [] t = "IGNORED"    -> "ignored"
      [] OTHER            -> t

ToLower(s) == [i \in DOMAIN s |-> LowerTok(s[i])]

\* strings.ToUpper on the tokens in use
UpperTok(t) ==
    CASE t = "identified" -> "IDENTIFIED"
      [] t = "Identified" -> "IDENTIFIED"
      [] t = "ignored"    -> "IGNORED"
      [] OTHER            -> t

ToUpper(s) == [i \in DOMAIN s |-> UpperTok(s[i])]

----------------------------------------------------------------------------
(* Data model: part_010 *)

\* time.Time: an instant (sec, nsec) and whether it carries a monotonic
\* clock reading (time.Now() does, a parsed time does not)
Time(sec, nsec, mono) == [sec |-> sec, nsec |-> nsec, mono |-> mono]

\* time.Time.Equal: same instant
TimeEqual(t, u) == t.sec = u.sec /\ t.nsec = u.nsec

AuditDecision(d, a, t) == [Decision |-> d, Assessment |-> a, Timestamp |-> t]

FileMatch(id, file, purl, lic, lines, audit) ==
    [ID |-> id, File |-> file, Purl |-> purl, Licenses |-> lic,
     OSSLines |-> lines, AuditCmd |-> audit]

\* OSSLines is an interface{}: nil, a string, or a JSON number
NilLines == [kind |-> "nil", val |-> <<>>]
StrLines(s) == [kind |-> "string", val |-> s]
NumLines == [kind |-> "number", val |-> <<"5">>]

NoMatch == <<>>

\* every classification taken for a valid one
IsValidIDAny(id) == TRUE

IsValidID(id) == id = "file" \/ id = "snippet"

\* index of the first match with id "file" or "snippet", 0 when there is none:
\* the loop of showAcceptDialog, displayFileContent, updateFileList and
\* performCSVExport
RECURSIVE FirstValidFrom(_, _)
FirstValidFrom(matches, i) ==
    IF i > Len(matches) THEN 0
    ELSE IF IsValidID(matches[i].ID) THEN i
    ELSE FirstValidFrom(matches, i + 1)

FirstValid(matches) == FirstValidFrom(matches, 1)

HasValidMatch(matches) == \E i \in DOMAIN matches : IsValidID(matches[i].ID)

----------------------------------------------------------------------------
(* Persistence: encoding/json as used by saveToFile and loadScanData *)




RECURSIVE Pow10(_)
Pow10(k) == IF k = 0 THEN 1 ELSE 10 * Pow10(k - 1)

\* the k decimal digits of n, most significant first
RECURSIVE DigitsOf(_, _)
DigitsOf(n, k) ==
    IF k = 0 THEN <<>>
    ELSE <<n \div Pow10(k - 1)>> \o DigitsOf(n % Pow10(k - 1), k - 1)

RECURSIVE TrimZeros(_)
TrimZeros(ds) ==
    IF ds # <<>> /\ ds[Len(ds)] = 0
    THEN TrimZeros(SubSeq(ds, 1, Len(ds) - 1)) ELSE ds

RECURSIVE FracValue(_, _)
FracValue(ds, k) ==
    IF ds = <<>> THEN 0
    ELSE Head(ds) * Pow10(k - 1) + FracValue(Tail(ds), k - 1)

\* time.RFC3339 in place of time.RFC3339Nano: whole seconds only
FormatTimeTruncated(t) == [sec |-> t.sec, frac |-> <<>>]

\* time.Time.MarshalJSON: RFC 3339 with the fraction's trailing zeros removed
\* ("2006-01-02T15:04:05.999999999Z07:00"); the monotonic reading is not
\* written.  sec stands for the date and time-of-day fields.

FormatTime(t) == [sec |-> t.sec, frac |-> TrimZeros(DigitsOf(t.nsec, 9))]

\* time.Time.UnmarshalJSON
ParseTime(f) == Time(f.sec, FracValue(f.frac, 9), FALSE)

\* json string encoding: with the default HTML escaping "<", ">" and "&" are
\* written as six-character unicode escapes
EscapeTok(t) ==
    CASE t = "<" -> "\\u003c"
      [] t = ">" -> "\\u003e"
      [] t = "&" -> "\\u0026"
      [] OTHER   -> t

UnescapeTok(t) ==
    CASE t = "\\u003c" -> "<"
      [] t = "\\u003e" -> ">"
      [] t = "\\u0026" -> "&"
      [] OTHER         -> t

EncodeString(s) == [i \in DOMAIN s |-> EscapeTok(s[i])]
DecodeString(s) == [i \in DOMAIN s |-> UnescapeTok(s[i])]

\* AuditDecision: `json:"assessment,omitempty"` leaves an empty assessment out
MarshalDecision(d) ==
    IF d.Assessment = EmptyStr
    THEN [decision |-> EncodeString(d.Decision),
          timestamp |-> FormatTime(d.Timestamp)]
    ELSE [decision |-> EncodeString(d.Decision),
          assessment |-> EncodeString(d.Assessment),
          timestamp |-> FormatTime(d.Timestamp)]

UnmarshalDecision(o) ==
    AuditDecision(DecodeString(o.decision),
                  IF "assessment" \in DOMAIN o
                  THEN DecodeString(o.assessment) ELSE EmptyStr,
                  ParseTime(o.timestamp))

MarshalLines(l) ==
    IF l.kind = "string" THEN StrLines(EncodeString(l.val)) ELSE l

UnmarshalLines(l) ==
    IF l.kind = "string" THEN StrLines(DecodeString(l.val)) ELSE l

\* FileMatch: `json:"audit,omitempty"` leaves an empty history out
MarshalMatch(m) ==
    LET purl == [i \in DOMAIN m.Purl |-> EncodeString(m.Purl[i])]
        lics == [i \in DOMAIN m.Licenses |-> EncodeString(m.Licenses[i])]
    IN  IF m.AuditCmd = <<>>
        THEN [id |-> m.ID, file |-> EncodeString(m.File), purl |-> purl,
              licenses |-> lics, oss_lines |-> MarshalLines(m.OSSLines)]
        ELSE [id |-> m.ID, file |-> EncodeString(m.File), purl |-> purl,
              licenses |-> lics, oss_lines |-> MarshalLines(m.OSSLines),
              audit |-> [i \in DOMAIN m.AuditCmd |->
                            MarshalDecision(m.AuditCmd[i])]]

UnmarshalMatch(o) ==
    FileMatch(o.id, DecodeString(o.file),
              [i \in DOMAIN o.purl |-> DecodeString(o.purl[i])],
              [i \in DOMAIN o.licenses |-> DecodeString(o.licenses[i])],
              UnmarshalLines(o.oss_lines),
              IF "audit" \in DOMAIN o
              THEN [i \in DOMAIN o.audit |-> UnmarshalDecision(o.audit[i])]
              ELSE <<>>)

\* order of characters (bytes) within the alphabet of path tokens and of
\* the leading tokens of package identifiers
TokRank(t) ==
    CASE t = "."          -> 1
      [] t = "/"          -> 2
      [] t = "Root"       -> 3
      [] t = "a"          -> 4
      [] t = "b.go"       -> 5
      [] t = "c.go"       -> 6
      [] t = "d"          -> 7
      [] t = "pkg:github" -> 8
      [] t = "pkg:npm"    -> 9
      [] t = "r.go"       -> 10
      [] OTHER            -> 11

\* s < t for Go strings
RECURSIVE StrLess(_, _)
StrLess(s, t) ==
    IF t = <<>> THEN FALSE
    ELSE IF s = <<>> THEN TRUE
    ELSE IF Head(s) = Head(t) THEN StrLess(Tail(s), Tail(t))
    ELSE TokRank(Head(s)) < TokRank(Head(t))

\* sort.Strings of a set of distinct strings
RECURSIVE SortStrings(_)
SortStrings(S) ==
    IF S = {} THEN <<>>
    ELSE LET m == CHOOSE x \in S : \A y \in S \ {x} : StrLess(x, y)
         IN  <<m>> \o SortStrings(S \ {m})

\* json.MarshalIndent(app.ScanData.Files): one object, the keys sorted; the
\* document is a sequence of pieces: the opening brace, one member per path,
\* the closing brace
MarshalFiles(files) ==
    LET keys == SortStrings(DOMAIN files)
    IN  <<[piece |-> "{"]>>
        \o [i \in DOMAIN keys |->
              [piece |-> "member",
               key |-> EncodeString(keys[i]),
               value |-> [j \in DOMAIN files[keys[i]] |->
                             MarshalMatch(files[keys[i]][j])]]]
        \o <<[piece |-> "}"]>>

\* json.Unmarshal accepts the document only when it is complete
ValidDocument(doc) ==
    /\ Len(doc) >= 2
    /\ doc[1].piece = "{"
    /\ doc[Len(doc)].piece = "}"
    /\ \A i \in 2..(Len(doc) - 1) : doc[i].piece = "member"

\* loadScanData: the map the document decodes to
UnmarshalFiles(doc) ==
    LET members == SubSeq(doc, 2, Len(doc) - 1)
        keyOf(i) == DecodeString(members[i].key)
    IN  [p \in {keyOf(i) : i \in DOMAIN members} |->
            LET i == CHOOSE k \in DOMAIN members : keyOf(k) = p
            IN  [j \in DOMAIN members[i].value |->
                    UnmarshalMatch(members[i].value[j])]]

----------------------------------------------------------------------------
(* ScrollableList: part_008 *)

\* NewScrollableList: ViewHeight
ViewHeight == 20

\* ScrollableList.adjustScroll
adjustScroll(sl) ==
    IF Len(sl.Items) = 0 THEN [sl EXCEPT !.ScrollOffset = 0]
    ELSE LET o1 == IF sl.SelectedIndex < sl.ScrollOffset
                   THEN sl.SelectedIndex ELSE sl.ScrollOffset
             o2 == IF sl.SelectedIndex >= o1 + sl.ViewHeight
                   THEN sl.SelectedIndex - sl.ViewHeight + 1 ELSE o1
             o3 == IF o2 < 0 THEN 0 ELSE o2
             maxScroll == IF Len(sl.Items) - sl.ViewHeight < 0
                          THEN 0 ELSE Len(sl.Items) - sl.ViewHeight
         IN  [sl EXCEPT !.ScrollOffset = IF o3 > maxScroll THEN maxScroll ELSE o3]

\* NewScrollableList
NewScrollableList(items) ==
    [Items |-> items, SelectedIndex |-> 0, ScrollOffset |-> 0,
     ViewHeight |-> ViewHeight]

\* ScrollableList.SetItems
SetItems(sl, items) ==
    adjustScroll([sl EXCEPT !.Items = items,
                            !.SelectedIndex =
                                IF sl.SelectedIndex >= Len(items)
                                THEN 0 ELSE sl.SelectedIndex])

\* ScrollableList.Navigate
Navigate(sl, direction) ==
    IF Len(sl.Items) = 0 THEN sl
    ELSE adjustScroll(
           [sl EXCEPT !.SelectedIndex =
              CASE direction = "up" /\ sl.SelectedIndex > 0
                     -> sl.SelectedIndex - 1
                [] direction = "down" /\ sl.SelectedIndex < Len(sl.Items) - 1
                     -> sl.SelectedIndex + 1
                [] OTHER -> sl.SelectedIndex])

\* ScrollableList.NavigatePage
NavigatePage(sl, direction) ==
    IF Len(sl.Items) = 0 THEN sl
    ELSE LET pageSize == sl.ViewHeight - 1
             up == IF sl.SelectedIndex - pageSize < 0
                   THEN 0 ELSE sl.SelectedIndex - pageSize
             down == IF sl.SelectedIndex + pageSize >= Len(sl.Items)
                     THEN Len(sl.Items) - 1 ELSE sl.SelectedIndex + pageSize
         IN  adjustScroll(
               [sl EXCEPT !.SelectedIndex =
                  CASE direction = "up" -> up
                    [] direction = "down" -> down
                    [] OTHER -> sl.SelectedIndex])

\* ScrollableList.Render: the height of the view becomes the ViewHeight and
\* the scroll offset of a list with items is adjusted; what is printed is no
\* state
Render(sl, viewHeight) ==
    LET sized == [sl EXCEPT !.ViewHeight = viewHeight]
    IN  IF Len(sized.Items) = 0 THEN sized ELSE adjustScroll(sized)

\* ScrollableList.GetSelectedItem
GetSelectedItem(sl) ==
    IF sl.SelectedIndex >= 0 /\ sl.SelectedIndex < Len(sl.Items)
    THEN sl.Items[sl.SelectedIndex + 1]
    ELSE EmptyStr

----------------------------------------------------------------------------
(* Directory membership, counting and the file pane *)

\* the filter predicate of countFilesInDirectory and updateFileList for one
\* path: "all" takes every path, "matched" a path with a valid match,
\* "pending" a path whose first valid match has no decision
PassesFilter(files, filter, p) ==
    LET k == FirstValid(files[p])
    IN  CASE filter = "all"     -> TRUE
          [] filter = "matched" -> k # 0
          [] filter = "pending" -> k # 0 /\ Len(files[p][k].AuditCmd) = 0
          [] OTHER              -> k # 0

\* a membership test that compares the directory path without the "/"
InDirectoryByPrefix(p, dirPath) ==
    IF dirPath = EmptyStr THEN ~Contains(p, "/")
    ELSE HasPrefix(p, dirPath)

\* membership of a path in a directory: the root ("") holds the paths
\* without "/", another directory the paths that start with dirPath + "/"
InDirectory(p, dirPath) ==
    IF dirPath = EmptyStr THEN ~Contains(p, "/")
    ELSE HasPrefix(p, dirPath \o <<"/">>)

\* an inner loop that counts the first valid match whatever its history
RECURSIVE CountedFromAnyHistory(_, _, _)
CountedFromAnyHistory(matches, filter, i) ==
    IF i > Len(matches) THEN 0
    ELSE IF IsValidID(matches[i].ID) THEN 1
    ELSE CountedFromAnyHistory(matches, filter, i + 1)

\* the inner loop of countFilesInDirectory over the matches of one path:
\* what the first match classified file or snippet adds to the count
RECURSIVE CountedFrom(_, _, _)
CountedFrom(matches, filter, i) ==
    IF i > Len(matches) THEN 0
    ELSE IF IsValidID(matches[i].ID)
    THEN (IF filter = "pending" /\ Len(matches[i].AuditCmd) > 0 THEN 0 ELSE 1)
    ELSE CountedFrom(matches, filter, i + 1)

\* the loop of countFilesInDirectory over the paths still to visit
RECURSIVE CountLoop(_, _, _, _)
CountLoop(files, filter, dirPath, todo) ==
    IF todo = {} THEN 0
    ELSE LET p == CHOOSE x \in todo : TRUE
         IN  (IF ~InDirectory(p, dirPath) THEN 0
              ELSE IF filter = "all" THEN 1
              ELSE CountedFrom(files[p], filter, 1))
             + CountLoop(files, filter, dirPath, todo \ {p})

\* countFilesInDirectory
countFilesInDirectory(files, filter, dirPath) ==
    CountLoop(files, filter, dirPath, DOMAIN files)

\* getFilesInDirectory: sorted paths of the directory; outside "all" only
\* those with a valid match
getFilesInDirectory(files, filter, dirPath) ==
    SortStrings({p \in DOMAIN files :
                    /\ filter = "all" \/ HasValidMatch(files[p])
                    /\ InDirectory(p, dirPath)})

\* the status icon updateFileList puts before a path
StatusIcon(matches) ==
    LET k == FirstValid(matches)
    IN  IF k = 0 THEN "- "
        ELSE IF Len(matches[k].AuditCmd) = 0 THEN "? "
        ELSE LET latest == matches[k].AuditCmd[Len(matches[k].AuditCmd)]
             IN  IF ToLower(TrimSpace(latest.Decision)) = Str("identified")
                 THEN "+ " ELSE "x "

\* displayFileStatus: the audit status and the assessment the status panel
\* shows for a match
displayFileStatus(match) ==
    IF Len(match.AuditCmd) = 0
    THEN [auditStatus |-> Str("PENDING"), assessment |-> EmptyStr]
    ELSE LET latest == match.AuditCmd[Len(match.AuditCmd)]
         IN  [auditStatus |-> ToUpper(latest.Decision),
              assessment |-> IF latest.Assessment # EmptyStr
                             THEN <<" (">> \o latest.Assessment \o <<")">>
                             ELSE EmptyStr]

\* displayDirectoryStatus: the counts of the status panel, each path counted
\* by its first valid match; the outcome is compared as it is stored
displayDirectoryStatus(files) ==
    LET valid == {p \in DOMAIN files : FirstValid(files[p]) # 0}
        first(p) == files[p][FirstValid(files[p])]
        last(p) == first(p).AuditCmd[Len(first(p).AuditCmd)].Decision
        decided(p) == Len(first(p).AuditCmd) > 0
    IN  [totalFilesInData |-> Cardinality(DOMAIN files),
         matchingFiles    |-> Cardinality(valid),
         fileMatches      |-> Cardinality({p \in valid : first(p).ID = "file"}),
         snippetMatches   |-> Cardinality({p \in valid : first(p).ID = "snippet"}),
         identifiedFiles  |-> Cardinality({p \in valid :
                                 decided(p) /\ last(p) = Str("identified")}),
         ignoredFiles     |-> Cardinality({p \in valid :
                                 decided(p) /\ last(p) = Str("ignored")}),
         pendingFiles     |-> Cardinality({p \in valid :
                                 \/ ~decided(p)
                                 \/ last(p) \notin {Str("identified"),
                                                    Str("ignored")}})]

\* the shouldShow test of updateFileList
ShouldShow(filter, matches) ==
    LET k == FirstValid(matches)
    IN  \/ filter = "all"
        \/ k # 0 /\ filter = "matched"
        \/ k # 0 /\ filter = "pending" /\ Len(matches[k].AuditCmd) = 0

RECURSIVE SelectSeq2(_, _, _, _)
SelectSeq2(paths, files, filter, i) ==
    IF i > Len(paths) THEN <<>>
    ELSE (IF ShouldShow(filter, files[paths[i]]) THEN <<paths[i]>> ELSE <<>>)
         \o SelectSeq2(paths, files, filter, i + 1)

\* filteredFiles of updateFileList (directory view)
FilteredFiles(files, filter, dirPath) ==
    SelectSeq2(getFilesInDirectory(files, filter, dirPath), files, filter, 1)

\* a TreeNode other than the root: its parent is the position of another
\* node in the sequence of nodes, 0 for the root
TreeNode(name, path, parent) == [Name |-> name, Path |-> path, Parent |-> parent]

\* a loop over the parts that makes a node for every part and looks for no
\* child of that name
RECURSIVE AddPartsNoReuse(_, _, _, _)
AddPartsNoReuse(nodes, parts, i, current) ==
    IF i >= Len(parts) THEN nodes
    ELSE IF parts[i] = EmptyStr
    THEN AddPartsNoReuse(nodes, parts, i + 1, current)
    ELSE AddPartsNoReuse(Append(nodes,
                                TreeNode(parts[i],
                                         Join(SubSeq(parts, 1, i), <<"/">>),
                                         current)),
                         parts, i + 1, Len(nodes) + 1)

\* the loop of buildFileTree over the parts of one path but the last: an
\* empty part is skipped, a child of the current node with the name of the
\* part is entered, and a part without such a child gets a new node
RECURSIVE AddParts(_, _, _, _)
AddParts(nodes, parts, i, current) ==
    IF i >= Len(parts) THEN nodes
    ELSE IF parts[i] = EmptyStr THEN AddParts(nodes, parts, i + 1, current)
    ELSE LET found == {k \in DOMAIN nodes : /\ nodes[k].Parent = current
                                            /\ nodes[k].Name = parts[i]}
         IN  IF found # {}
             THEN AddParts(nodes, parts, i + 1,
                           CHOOSE k \in found : \A j \in found : k <= j)
             ELSE AddParts(Append(nodes,
                                  TreeNode(parts[i],
                                           Join(SubSeq(parts, 1, i), <<"/">>),
                                           current)),
                           parts, i + 1, Len(nodes) + 1)

\* the loop of buildFileTree over the sorted paths
RECURSIVE AddPaths(_, _, _)
AddPaths(nodes, paths, j) ==
    IF j > Len(paths) THEN nodes
    ELSE AddPaths(AddParts(nodes, Split(paths[j], "/"), 1, 0), paths, j + 1)

\* the rootFiles test of buildFileTree: some path of the store has no "/"
DotNeeded(files) == \E p \in DOMAIN files : ~Contains(p, "/")

\* a buildFileTree that adds "All Files" whenever a valid match exists
AllFilesNeededAlways(dirs, paths) == Len(paths) > 0

\* the test for the "All Files" node: no node was created and some path has
\* a valid match
AllFilesNeeded(dirs, paths) == Len(dirs) = 0 /\ Len(paths) > 0

\* buildFileTree: the nodes in the order they are made, and root.Children as
\* positions of nodes: the "." node first, then the top-level directories
\* and the "All Files" node in the order they were appended
buildFileTree(files) ==
    LET paths == SortStrings({p \in DOMAIN files : HasValidMatch(files[p])})
        dirs == AddPaths(<<>>, paths, 1)
        withAll == IF AllFilesNeeded(dirs, paths)
                   THEN Append(dirs, TreeNode(Str("All Files"), EmptyStr, 0))
                   ELSE dirs
        nodes == IF DotNeeded(files)
                 THEN Append(withAll, TreeNode(Str("."), EmptyStr, 0))
                 ELSE withAll
        appended == SelectSeq([k \in DOMAIN withAll |-> k],
                              LAMBDA k : withAll[k].Parent = 0)
    IN  [nodes |-> nodes,
         Children |-> IF DotNeeded(files) THEN <<Len(nodes)>> \o appended
                      ELSE appended]

\* the paths of the directory nodes of buildFileTree
TreeDirs(files) ==
    LET tree == buildFileTree(files)
    IN  {tree.nodes[k].Path : k \in DOMAIN tree.nodes}

\* what app.TreeState.selectedNode and the Node of a row point to: a node of
\* the tree is known by its Name and Path (the "." and the "All Files" node
\* share the path ""), a node of the ranking view has the Path "purl_%d"
NodeOf(name, path) == [Name |-> name, Path |-> path]

\* app.FileTree, the root made by buildFileTree
RootNode == NodeOf(Str("Root"), EmptyStr)

\* initTreeState: root.Children[0], or in "matched" / "pending" the first
\* child with a non-zero count; the root itself when it has no child
InitialNode(tree, files, filter) ==
    LET children == tree.Children
        nodeAt(i) == NodeOf(tree.nodes[children[i]].Name,
                            tree.nodes[children[i]].Path)
        hits == {i \in DOMAIN children :
                    countFilesInDirectory(files, filter, nodeAt(i).Path) > 0}
    IN  IF children = <<>> THEN RootNode
        ELSE IF filter \in {"matched", "pending"} /\ hits # {}
        THEN nodeAt(CHOOSE i \in hits : \A j \in hits : i <= j)
        ELSE nodeAt(1)

----------------------------------------------------------------------------
(* The ranking view: buildPURLRanking (main.go), buildPURLDisplay (part_003) *)

\* the key buildPURLRanking files a path under, taken from its last valid
\* match instead of its first
RankingKeyOfLast(matches) ==
    LET valid == {i \in DOMAIN matches : IsValidID(matches[i].ID)}
    IN  IF valid = {} THEN <<>>
        ELSE LET k == CHOOSE i \in valid : \A j \in valid : j <= i
             IN  IF Len(matches[k].Purl) > 0 THEN <<matches[k].Purl[1]>>
                 ELSE <<>>

\* the key taken from the first valid match that has an identifier
RankingKeyOfFirstNamed(matches) ==
    LET named == {i \in DOMAIN matches : /\ IsValidID(matches[i].ID)
                                         /\ Len(matches[i].Purl) > 0}
    IN  IF named = {} THEN <<>>
        ELSE <<matches[CHOOSE i \in named : \A j \in named : i <= j].Purl[1]>>

\* the key buildPURLRanking files a path under: <<the first identifier of
\* its first valid match>>, or <<>> when the path has no valid match or that
\* match has no identifier
RankingKey(matches) ==
    LET k == FirstValid(matches)
    IN  IF k # 0 /\ Len(matches[k].Purl) > 0 THEN <<matches[k].Purl[1]>>
        ELSE <<>>

\* the orders in which a set of paths can be appended while a Go map is
\* iterated
Orderings(S) ==
    {f \in [1..Cardinality(S) -> S] : \A p \in S : \E i \in DOMAIN f : f[i] = p}

\* a less function that looks at the identifier alone
RankedBeforeByName(a, b) == StrLess(a.PURL, b.PURL)

\* the less function of the sort.Slice in buildPURLRanking
RankedBefore(a, b) ==
    \/ a.Count > b.Count
    \/ a.Count = b.Count /\ StrLess(a.PURL, b.PURL)

RECURSIVE SortRanking(_)
SortRanking(E) ==
    IF E = {} THEN <<>>
    ELSE LET m == CHOOSE x \in E : \A y \in E \ {x} : RankedBefore(x, y)
         IN  <<m>> \o SortRanking(E \ {m})

\* buildPURLRanking: the rankings app.PURLRanking can hold for a store; the
\* order of the paths of one entry follows the iteration of the map
buildPURLRanking(files) ==
    LET keyed == {p \in DOMAIN files : RankingKey(files[p]) # <<>>}
        keys == {RankingKey(files[p])[1] : p \in keyed}
        filesOf(k) == {p \in keyed : RankingKey(files[p]) = <<k>>}
        orders == {Orderings(filesOf(k)) : k \in keys}
    IN  {SortRanking({[PURL |-> k, Files |-> ord[k],
                       Count |-> Len(ord[k])] : k \in keys}) :
            ord \in {o \in [keys -> UNION orders] :
                        \A k \in keys : o[k] \in Orderings(filesOf(k))}}

\* a count of the paths of a ranking entry that looks at no history
PurlCountAnyHistory(files, filter, entry) ==
    Cardinality({i \in DOMAIN entry.Files :
                   /\ entry.Files[i] \in DOMAIN files
                   /\ FirstValid(files[entry.Files[i]]) # 0})

\* the count buildPURLDisplay shows for one ranking entry
PurlCount(files, filter, entry) ==
    Cardinality({i \in DOMAIN entry.Files :
                   LET p == entry.Files[i]
                       k == IF p \in DOMAIN files THEN FirstValid(files[p])
                            ELSE 0
                   IN  /\ k # 0
                       /\ filter = "pending" => Len(files[p][k].AuditCmd) = 0})

\* buildPURLDisplay: the positions of the ranking entries that get a line
RECURSIVE buildPURLDisplay(_, _, _, _)
buildPURLDisplay(files, filter, ranking, i) ==
    IF i > Len(ranking) THEN <<>>
    ELSE (IF PurlCount(files, filter, ranking[i]) > 0 THEN <<i>> ELSE <<>>)
         \o buildPURLDisplay(files, filter, ranking, i + 1)

\* the Path "purl_%d" of the node made for the i-th entry of the ranking
\* (the code numbers the entries from 0)
PurlNode(i) == <<"purl_", <<"0", "1", "2", "3">>[i]>>

IsPurlNode(node) == Len(node) = 2 /\ node[1] = "purl_"

\* node.Files: the paths of the ranking entry for a node of the ranking
\* view, nothing for a directory node
NodeFiles(node, ranking) ==
    IF \E i \in DOMAIN ranking : node = PurlNode(i)
    THEN ranking[CHOOSE i \in DOMAIN ranking : node = PurlNode(i)].Files
    ELSE <<>>

----------------------------------------------------------------------------
(* The tree rows: updateTreeDisplay, buildTreeDisplay (part_003) *)

\* node.IsDir: set for the root and every node of buildFileTree, not for
\* the nodes made for ranking entries
IsDir(node) == ~IsPurlNode(node.Path)

\* node.Children as positions of tree.nodes, in the order they were
\* appended; position 0 is the root
ChildrenOf(tree, k) ==
    IF k = 0 THEN tree.Children
    ELSE SelectSeq([i \in DOMAIN tree.nodes |-> i],
                   LAMBDA i : tree.nodes[i].Parent = k)

\* sort.Slice of the children of a node by Name (all of them directories)
RECURSIVE SortByName(_, _)
SortByName(tree, ks) ==
    IF ks = {} THEN <<>>
    ELSE LET m == CHOOSE x \in ks : \A y \in ks \ {x} :
                      StrLess(tree.nodes[x].Name, tree.nodes[y].Name)
         IN  <<m>> \o SortByName(tree, ks \ {m})

\* the children of a node in the order buildTreeDisplay visits them, with
\* the sort it does at every node applied to the children of the root too
VisitOrderSorted(tree, k, isRoot) ==
    LET ks == ChildrenOf(tree, k)
    IN  SortByName(tree, {ks[i] : i \in DOMAIN ks})

\* the children of a node in the order buildTreeDisplay visits them: as
\* stored under a node named "Root", sorted by name under any other
VisitOrder(tree, k, isRoot) ==
    LET ks == ChildrenOf(tree, k)
    IN  IF isRoot THEN ks ELSE SortByName(tree, {ks[i] : i \in DOMAIN ks})

\* strings.Repeat("  ", indent)
Prefix(indent) == [i \in 1..indent |-> "  "]

\* the Line of a directory row: prefix, symbol, name and count
DirLine(indent, expanded, name, fileCount) ==
    Prefix(indent) \o <<IF expanded THEN "[-] " ELSE "[+] ">> \o name
    \o <<" (", Itoa(fileCount), ")">>

\* a buildTreeDisplay that gives a row to a directory whatever its count
HasRowAlways(fileCount) == TRUE

\* buildTreeDisplay gives no row to a directory whose count is zero
HasRow(fileCount) == fileCount # 0

\* buildTreeDisplay for node k of the tree (0 for app.FileTree) and the loop
\* over the children ks of a node from position i on: a node named "Root"
\* gets no row and hands its indent to its children; a directory with a
\* zero count is left out with all below it; the children of a directory
\* follow its row only when it is expanded
RECURSIVE buildTreeDisplay(_, _, _, _, _, _)
RECURSIVE DisplayChildren(_, _, _, _, _, _, _)
buildTreeDisplay(tree, files, filter, expanded, k, indent) ==
    IF k = 0 \/ tree.nodes[k].Name = Str("Root")
    THEN DisplayChildren(tree, files, filter, expanded,
                         VisitOrder(tree, k, TRUE), 1, indent)
    ELSE LET node == tree.nodes[k]
             fileCount == countFilesInDirectory(files, filter, node.Path)
         IN  IF ~HasRow(fileCount) THEN <<>>
             ELSE <<[Node |-> NodeOf(node.Name, node.Path),
                     Indent |-> indent,
                     Line |-> DirLine(indent, node.Path \in expanded,
                                      node.Name, fileCount)]>>
                  \o (IF node.Path \in expanded
                      THEN DisplayChildren(tree, files, filter, expanded,
                                           VisitOrder(tree, k, FALSE), 1,
                                           indent + 1)
                      ELSE <<>>)

DisplayChildren(tree, files, filter, expanded, ks, i, indent) ==
    IF i > Len(ks) THEN <<>>
    ELSE buildTreeDisplay(tree, files, filter, expanded, ks[i], indent)
         \o DisplayChildren(tree, files, filter, expanded, ks, i + 1, indent)

\* the rows buildPURLDisplay appends: one for every entry of the ranking
\* whose count is not zero, with a node made for the row
PurlLines(files, filter, ranking) ==
    LET shown == buildPURLDisplay(files, filter, ranking, 1)
    IN  [j \in DOMAIN shown |->
            [Node |-> NodeOf(ranking[shown[j]].PURL, PurlNode(shown[j])),
             Indent |-> 0,
             Line |-> <<"    ">> \o ranking[shown[j]].PURL
                      \o <<" (", Itoa(PurlCount(files, filter,
                                                ranking[shown[j]])), ")">>]]

\* app.TreeState.displayLines after updateTreeDisplay
DisplayLines(treeViewType, tree, files, filter, ranking, expanded) ==
    IF treeViewType = "purls" THEN PurlLines(files, filter, ranking)
    ELSE buildTreeDisplay(tree, files, filter, expanded, 0, 0)

\* the position of the first row whose Node is the selected node, 0 when
\* there is none; the nodes of the ranking rows are made anew by every
\* updateTreeDisplay, so none of them is the selected one
CurrentIndex(treeViewType, lines, node) ==
    LET hits == {i \in DOMAIN lines : lines[i].Node = node}
    IN  IF treeViewType = "purls" \/ hits = {} THEN 0
        ELSE CHOOSE i \in hits : \A j \in hits : i <= j

\* app.TreeList after updateTreeDisplay: the lines of the rows are set and
\* the row of the selected node, when it has one, is highlighted
updateTreeDisplay(treeList, treeViewType, lines, node) ==
    LET sl == SetItems(treeList, [i \in DOMAIN lines |-> lines[i].Line])
        currentIndex == CurrentIndex(treeViewType, lines, node)
    IN  IF currentIndex > 0
        THEN adjustScroll([sl EXCEPT !.SelectedIndex = currentIndex - 1])
        ELSE sl

----------------------------------------------------------------------------
(* Inputs *)

PathAB == <<"a", "/", "b.go">>
PathAC == <<"a", "/", "c.go">>
PathR == <<"r.go">>

PurlPinned == <<"pkg:github", "/", "acme", "/", "lib", "@", "v1">>
PurlUnpinned == <<"pkg:github", "/", "acme", "/", "lib">>
PurlNpm == <<"pkg:npm", "/", "left-pad">>

\* a decision that was in the input file (loaded, so without monotonic reading)
LoadedDecision == AuditDecision(Str("ignored"), EmptyStr, Time(90, 500000000, FALSE))

\* the result files the ledger is run on: a file match, a path whose only
\* match is classified "none", and a root-level path whose second match is
\* the first valid one
LedgerStore(history) ==
    (PathAB :> <<FileMatch("file", <<"src", "/", "b.go">>, <<PurlPinned>>,
                           <<Str("MIT")>>, NilLines, history)>>)
    @@ (PathAC :> <<FileMatch("none", EmptyStr, <<>>, <<>>, NilLines, <<>>)>>)
    @@ (PathR :> <<FileMatch("none", EmptyStr, <<>>, <<>>, NilLines, <<>>),
                   FileMatch("snippet", <<"lib", "/", "r.go">>, <<PurlUnpinned>>,
                             <<Str("MIT"), Str("GPL")>>,
                             StrLines(<<"10", "-", "12", ",", "40">>), <<>>)>>)

LedgerStores == {LedgerStore(<<LoadedDecision>>)}

\* the dataset the export process is run on: an accepted snippet match with
\* two line ranges and an identifier without revision, and a path without
\* a valid match
ExportStore ==
    (PathR :> <<FileMatch("none", EmptyStr, <<>>, <<>>, NilLines, <<>>),
                FileMatch("snippet", <<"lib", "/", "r.go">>, <<PurlUnpinned>>,
                          <<Str("MIT"), Str("GPL")>>,
                          StrLines(<<"10", "-", "12", ",", "40">>),
                          <<AuditDecision(Str("Identified"), Str("ok"),
                                          Time(90, 0, FALSE))>>)>>)
    @@ (PathAC :> <<FileMatch("none", EmptyStr, <<>>, <<>>, NilLines, <<>>)>>)

ExportStores == {ExportStore}

\* the datasets whose export is followed to its end: two paths naming the
\* same repository without revision, so that its default branch has to be
\* asked for, and a path with a pinned identifier next to a path without
\* match
LiveStores ==
    {(PathAB :> <<FileMatch("file", <<"src", "/", "b.go">>,
                            <<PurlNpm, PurlUnpinned>>, <<Str("MIT")>>,
                            NilLines, <<>>)>>)
     @@ (PathR :> <<FileMatch("file", <<"lib", "/", "r.go">>,
                              <<PurlUnpinned>>, <<Str("MIT")>>, NilLines,
                              <<>>)>>),
     (PathAB :> <<FileMatch("snippet", <<"src", "/", "b.go">>,
                            <<PurlPinned>>, <<Str("MIT")>>, NilLines, <<>>)>>)
     @@ (PathR :> <<>>)}

\* the dataset decisions are recorded on while it is exported: two paths
\* whose matches carry one decision each
AuditedStore ==
    (PathAB :> <<FileMatch("file", <<"src", "/", "b.go">>, <<PurlNpm>>,
                           <<Str("MIT")>>, NilLines, <<LoadedDecision>>)>>)
    @@ (PathR :> <<FileMatch("snippet", <<"lib", "/", "r.go">>,
                             <<PurlPinned>>, <<Str("MIT")>>,
                             StrLines(<<"7">>),
                             <<AuditDecision(Str("Identified"), Str("ok"),
                                             Time(90, 0, FALSE))>>)>>)

PathDC == <<"d", "/", "c.go">>

\* the dataset the two tree views are run on: paths whose first valid match
\* is followed by another valid match with another identifier and another
\* history, or preceded by a match classified "none" that has an identifier;
\* two paths sharing their ranking key; and a path whose first valid match
\* has no identifier
ViewStore ==
    (PathAB :> <<FileMatch("file", <<"src", "/", "b.go">>, <<PurlPinned>>,
                           <<Str("MIT")>>, NilLines, <<>>),
                 FileMatch("snippet", <<"src", "/", "b.go">>, <<PurlNpm>>,
                           <<Str("GPL")>>, StrLines(<<"7">>),
                           <<LoadedDecision>>)>>)
    @@ (PathAC :> <<FileMatch("none", EmptyStr, <<PurlNpm>>, <<>>, NilLines,
                              <<>>),
                    FileMatch("snippet", <<"lib", "/", "r.go">>,
                              <<PurlUnpinned, PurlNpm>>, <<Str("MIT")>>,
                              StrLines(<<"7">>), <<>>),
                    FileMatch("file", <<"lib", "/", "r.go">>, <<PurlNpm>>,
                              <<Str("GPL")>>, NilLines,
                              <<AuditDecision(Str("identified"), Str("ok"),
                                              Time(90, 0, FALSE))>>)>>)
    @@ (PathR :> <<FileMatch("none", EmptyStr, <<>>, <<>>, NilLines, <<>>),
                   FileMatch("file", <<"lib", "/", "r.go">>, <<PurlUnpinned>>,
                             <<Str("MIT")>>, NilLines, <<>>)>>)
    @@ (PathDC :> <<FileMatch("file", <<"src", "/", "c.go">>, <<>>,
                              <<Str("MIT")>>, NilLines, <<>>),
                    FileMatch("snippet", <<"src", "/", "c.go">>, <<PurlNpm>>,
                              <<Str("MIT")>>, StrLines(<<"7">>), <<>>)>>)

\* a GitHub identifier without repository name
PurlNoRepo == <<"pkg:github", "/", "acme">>

\* a GitHub identifier without owner
PurlNoOwner == <<"pkg:github", "/", "/", "lib">>

\* the matches deep links are computed for
LinkIDs == {"file", "snippet", "none"}
LinkPurls == {<<>>, <<PurlPinned>>, <<PurlNpm, PurlUnpinned>>, <<PurlNpm>>,
              <<PurlNoRepo, PurlPinned>>, <<PurlNoRepo>>, <<PurlNoOwner>>}
LinkLines ==
    {NilLines, NumLines, StrLines(EmptyStr), StrLines(Str("all")),
     StrLines(<<"10", "-", "12", ",", "40">>),
     StrLines(<<"7">>),
     StrLines(<<" ", "3", " ", "-", "5", ",", " ", "9", " ">>),
     StrLines(<<"1", "-", "2", "-", "3">>)}

\* the other path of the dataset: no match at all, a file match of the
\* repository without revision, or a snippet match with three line ranges
\* behind a match classified none
LinkOthers ==
    {<<>>,
     <<FileMatch("file", <<"lib", "/", "r.go">>, <<PurlUnpinned>>,
                 <<Str("MIT")>>, NilLines, <<>>)>>,
     <<FileMatch("none", EmptyStr, <<>>, <<>>, NilLines, <<>>),
       FileMatch("snippet", <<"lib", "/", "r.go">>, <<>>, <<Str("MIT")>>,
                 StrLines(<<"1", ",", "2", ",", "3">>), <<>>)>>}

PathADC == <<"a", "/", "d", "/", "c.go">>
PathDotDC == <<"a", ".", "d", "/", "c.go">>
PathRootB == <<"Root", "/", "b.go">>

\* the paths of the datasets the tree is built from: a root-level path, a
\* path in a directory, one in a directory of that directory, one in a
\* directory whose name starts with the name of another and sorts after it
\* while its paths sort before, and one in a directory named like the root
TreePaths == {PathR, PathAB, PathADC, PathDotDC, PathRootB}

\* the matches a path of these datasets can have: only a match classified
\* "none", an undecided file match, a decided snippet match after a match
\* classified "none", and a file match without identifier followed by a
\* snippet match with one
TreeMatches(kind) ==
    CASE kind = "none" ->
           <<FileMatch("none", EmptyStr, <<PurlNpm>>, <<>>, NilLines, <<>>)>>
      [] kind = "pending" ->
           <<FileMatch("file", <<"src", "/", "b.go">>, <<PurlNpm>>,
                       <<Str("MIT")>>, NilLines, <<>>)>>
      [] kind = "pendingGithub" ->
           <<FileMatch("file", <<"src", "/", "c.go">>,
                       <<PurlUnpinned, PurlNpm>>, <<Str("MIT")>>, NilLines,
                       <<>>)>>
      [] kind = "decided" ->
           <<FileMatch("none", EmptyStr, <<>>, <<>>, NilLines, <<>>),
             FileMatch("snippet", <<"lib", "/", "r.go">>, <<PurlUnpinned>>,
                       <<Str("MIT")>>, StrLines(<<"7">>), <<LoadedDecision>>)>>
      [] kind = "unnamed" ->
           <<FileMatch("file", <<"src", "/", "b.go">>, <<>>, <<Str("MIT")>>,
                       NilLines, <<>>),
             FileMatch("snippet", <<"lib", "/", "r.go">>, <<PurlNpm>>,
                       <<Str("MIT")>>, StrLines(<<"7">>), <<>>)>>

\* what each path can be in these datasets; "absent" leaves the path out
TreeKinds(p) ==
    CASE p = PathR     -> {"absent", "none", "pending", "decided"}
      [] p = PathAB    -> {"absent", "none", "pending", "unnamed"}
      [] p = PathADC   -> {"absent", "pendingGithub", "decided"}
      [] p = PathDotDC -> {"absent", "pendingGithub"}
      [] p = PathRootB -> {"absent", "pending"}

TreeStores ==
    {[p \in {q \in TreePaths : c[q] # "absent"} |-> TreeMatches(c[p])] :
        c \in {k \in [TreePaths -> {"absent", "none", "pending",
                                     "pendingGithub", "decided", "unnamed"}] :
                  \A p \in TreePaths : k[p] \in TreeKinds(p)}}

LinkStores ==
    {(PathAB :> <<FileMatch(id, <<"src", "/", "b.go">>, purl, <<Str("MIT")>>,
                            lines, <<>>)>>)
     @@ (PathR :> other) :
        id \in LinkIDs, purl \in LinkPurls, lines \in LinkLines,
        other \in LinkOthers}

\* what the auditor typed into audit_input (v.Buffer()) and the value of
\* time.Now() at that moment: a comment with surrounding white space when
\* accepting, nothing when ignoring
SaveInputs(decision) ==
    IF decision = Str("identified")
    THEN {[buf |-> <<" ", "a", "<", "b", "\n">>, now |-> Time(101, 7, TRUE)]}
    ELSE {[buf |-> EmptyStr, now |-> Time(100, 120000000, TRUE)]}

FilterValues == {"all", "matched", "pending"}

----------------------------------------------------------------------------
(* gocui key dispatch: a binding of the current view wins; a global binding
   runs otherwise, except that a character typed into an editable view goes
   to its editor *)

AuditViews == {"audit_dialog", "audit_input"}

\* isAuditDialogOpen
isAuditDialogOpen ==
    views \cap {"audit_dialog", "audit_input", "assessment_input",
                "audit_error", "export_dialog", "export_error"} # {}

\* a global character key ('a', 'i', 'e', 't') reaches its handler
GlobalCharKey == currentView # "audit_input"

PaneView == IF ActivePane = "tree" THEN "tree" ELSE "files"

TotalDecisions(files) ==
    LET Sum[S \in SUBSET DOMAIN files] ==
          IF S = {} THEN 0
          ELSE LET p == CHOOSE x \in S : TRUE
                   n == LET Cnt[i \in 0..Len(files[p])] ==
                              IF i = 0 THEN 0
                              ELSE Cnt[i - 1] + Len(files[p][i].AuditCmd)
                        IN  Cnt[Len(files[p])]
               IN  n + Sum[S \ {p}]
    IN  Sum[DOMAIN files]

\* updateFileList, run at the end of the handlers and by the layout manager
\* after every event: in content mode nothing changes, nor in directory
\* view when the selected node is no directory; otherwise the file pane
\* shows the filtered files of the selected directory, or in ranking view
\* those of the selected ranking entry
updateFileList ==
    IF \/ ViewMode' = "content"
       \/ TreeViewType' # "purls" /\ ~IsDir(selectedNode')
    THEN UNCHANGED <<CurrentFileList, SelectedFileIndex, FileList>>
    ELSE /\ CurrentFileList' =
              IF TreeViewType' = "purls"
              THEN SelectSeq2(NodeFiles(selectedNode'.Path, PURLRanking'), Files',
                              ViewFilter', 1)
              ELSE FilteredFiles(Files', ViewFilter', selectedNode'.Path)
         /\ FileList' = SetItems(FileList,
                                 [i \in DOMAIN CurrentFileList' |->
                                    <<StatusIcon(Files'[CurrentFileList'[i]])>>
                                    \o CurrentFileList'[i]])
         /\ SelectedFileIndex' = FileList'.SelectedIndex

----------------------------------------------------------------------------
(* The audit ledger: part_004 (audit dialogs), main.go (key handlers) *)

\* the decision history of the match <<path, index>> points to
HistoryOf(files, ptr) == files[ptr[1]][ptr[2]].AuditCmd

\* the first match of the selected file, whatever its classification
ResolveMatchAnyID ==
    IF CurrentMatch # NoMatch THEN CurrentMatch
    ELSE IF /\ ActivePane = "files"
            /\ Len(CurrentFileList) > 0
            /\ SelectedFileIndex < Len(CurrentFileList)
    THEN LET selectedFile == CurrentFileList[SelectedFileIndex + 1]
         IN  IF selectedFile \in DOMAIN Files /\ Len(Files[selectedFile]) > 0
             THEN <<selectedFile, 1>>
             ELSE NoMatch
    ELSE NoMatch

\* the match showAcceptDialog / showIgnoreDialog resolve: app.CurrentMatch
\* when set, else the first valid match of the file selected in the file pane
ResolveMatch ==
    IF CurrentMatch # NoMatch THEN CurrentMatch
    ELSE IF /\ ActivePane = "files"
            /\ Len(CurrentFileList) > 0
            /\ SelectedFileIndex < Len(CurrentFileList)
    THEN LET selectedFile == CurrentFileList[SelectedFileIndex + 1]
         IN  IF /\ selectedFile \in DOMAIN Files
                /\ FirstValid(Files[selectedFile]) # 0
             THEN <<selectedFile, FirstValid(Files[selectedFile])>>
             ELSE NoMatch
    ELSE NoMatch

\* showAcceptDialog ('a') and showIgnoreDialog ('i'): without a match the
\* audit_error view; with one the pending decision and the dialog
showAuditDialog(decision) ==
    /\ GlobalCharKey
    /\ ActivePane # "tree"
    /\ LET m == ResolveMatch
       IN  IF m = NoMatch
           THEN /\ UNCHANGED <<CurrentMatch, PendingDecision>>
                /\ IF "audit_error" \in views
                   THEN UNCHANGED <<views, currentView>>
                   ELSE /\ views' = views \cup {"audit_error"}
                        /\ currentView' = "audit_error"
           ELSE /\ CurrentMatch' = m
                /\ PendingDecision' = decision
                /\ views' = views \cup AuditViews
                /\ currentView' = IF "audit_input" \in views
                                  THEN currentView ELSE "audit_input"
    /\ UNCHANGED <<Files, ActivePane, ViewMode, ViewFilter, selectedNode,
                   disk, saveResult,
                   TreeViewType, PURLRanking,
                   FileTree, expandedDirs, displayLines, TreeList>>
    /\ updateFileList
    /\ UNCHANGED exportVars

showAcceptDialog == showAuditDialog(Str("identified"))

showIgnoreDialog == showAuditDialog(Str("ignored"))

\* ESC on the audit_error view
closeAuditError ==
    /\ currentView = "audit_error"
    /\ views' = views \ {"audit_error"}
    /\ currentView' = PaneView
    /\ UNCHANGED <<Files, CurrentMatch, PendingDecision, ActivePane, ViewMode,
                   ViewFilter, selectedNode, disk, saveResult,
                   TreeViewType, PURLRanking,
                   FileTree, expandedDirs, displayLines, TreeList>>
    /\ updateFileList
    /\ UNCHANGED exportVars

\* a closeAuditDialog that removes the views and leaves the pending decision
\* and the current match as they are
CloseAuditDialogEffectKeeping(vs) ==
    /\ views' = vs \ {"audit_dialog", "audit_input", "assessment_input"}
    /\ UNCHANGED <<PendingDecision, CurrentMatch>>
    /\ currentView' = PaneView

\* the effect of closeAuditDialog on the views, the pending decision and
\* the current match
CloseAuditDialogEffect(vs) ==
    /\ views' = vs \ {"audit_dialog", "audit_input", "assessment_input"}
    /\ PendingDecision' = EmptyStr
    /\ CurrentMatch' = NoMatch
    /\ currentView' = PaneView

\* closeAuditDialog: ESC on audit_input
closeAuditDialog ==
    /\ currentView = "audit_input"
    /\ CloseAuditDialogEffect(views)
    /\ UNCHANGED <<Files, ActivePane, ViewMode, ViewFilter, selectedNode,
                   disk, saveResult,
                   TreeViewType, PURLRanking,
                   FileTree, expandedDirs, displayLines, TreeList>>
    /\ updateFileList
    /\ UNCHANGED exportVars

\* ESC on the save_error view: the view goes, then closeAuditDialog
closeSaveError ==
    /\ currentView = "save_error"
    /\ CloseAuditDialogEffect(views \ {"save_error"})
    /\ UNCHANGED <<Files, ActivePane, ViewMode, ViewFilter, selectedNode,
                   disk, saveResult,
                   TreeViewType, PURLRanking,
                   FileTree, expandedDirs, displayLines, TreeList>>
    /\ updateFileList
    /\ UNCHANGED exportVars

\* ioutil.WriteFile(app.FilePath, data, 0644): the file is opened with
\* O_TRUNC and the data written to it.  The outcomes: the open fails (the
\* file keeps its contents), the write fails after k pieces (the file holds
\* those k pieces; taken here: nothing, and all but the last piece), or all
\* of it is written.
WriteFileOutcomes(old, data) ==
    {[err |-> "", file |-> data], [err |-> "open", file |-> old]}
    \cup {[err |-> "write", file |-> SubSeq(data, 1, k)] :
             k \in {0, Len(data) - 1}}

\* a saveToFile that drops the error of the write
saveToFileErrorDropped(files, old) ==
    {[err |-> "", file |-> w.file] :
        w \in WriteFileOutcomes(old, MarshalFiles(files))}

\* saveToFile: the whole store, marshalled, overwrites the result file
saveToFile(files, old) == WriteFileOutcomes(old, MarshalFiles(files))

\* the decision replaces the history in place of being appended to it
AppendDecisionOverwrite(files, ptr, decision) ==
    [files EXCEPT ![ptr[1]][ptr[2]].AuditCmd = <<decision>>]

\* the store after app.CurrentMatch.AuditCmd = append(..., decision)
AppendDecision(files, ptr, decision) ==
    [files EXCEPT ![ptr[1]][ptr[2]].AuditCmd = Append(@, decision)]

\* saveAuditDecision: what the handler does to the ledger and the views
saveAuditDecisionHandler ==
    /\ currentView = "audit_input"
    /\ IF CurrentMatch = NoMatch \/ PendingDecision = EmptyStr
       THEN /\ CloseAuditDialogEffect(views)
            /\ UNCHANGED <<Files, disk, saveResult>>
       ELSE /\ TotalDecisions(Files) < MaxDecisions
            /\ \E in \in SaveInputs(PendingDecision) :
                 LET decision == AuditDecision(PendingDecision,
                                               TrimSpace(in.buf), in.now)
                 IN  Files' = AppendDecision(Files, CurrentMatch, decision)
            /\ \E w \in saveToFile(Files', disk) :
                 /\ disk' = w.file
                 /\ saveResult' = w.err
                 /\ IF w.err # ""
                    THEN /\ UNCHANGED <<CurrentMatch, PendingDecision>>
                         /\ IF "save_error" \in views
                            THEN UNCHANGED <<views, currentView>>
                            ELSE /\ views' = views \cup {"save_error"}
                                 /\ currentView' = "save_error"
                    ELSE CloseAuditDialogEffect(views)
    /\ UNCHANGED <<ActivePane, ViewMode, ViewFilter, selectedNode,
                   TreeViewType, PURLRanking,
                   FileTree, expandedDirs, displayLines, TreeList>>
    /\ updateFileList

\* saveAuditDecision: ENTER on audit_input
saveAuditDecision ==
    /\ saveAuditDecisionHandler
    /\ UNCHANGED exportVars

\* switchPane: Tab, unless file content is shown
switchPane ==
    /\ ViewMode # "content"
    /\ ActivePane' = IF ActivePane = "tree" THEN "files" ELSE "tree"
    /\ UNCHANGED <<Files, CurrentMatch, PendingDecision, ViewMode, ViewFilter,
                   selectedNode, views, currentView, disk, saveResult,
                   TreeViewType, PURLRanking,
                   FileTree, expandedDirs, displayLines, TreeList>>
    /\ updateFileList
    /\ UNCHANGED exportVars

\* navigateTree: arrow keys in the tree pane move the highlight of
\* app.TreeList, and the node of the highlighted row becomes the selected
\* one; nothing happens while there is no row
navigateTree ==
    /\ ~isAuditDialogOpen
    /\ ViewMode # "content"
    /\ ActivePane = "tree"
    /\ Len(displayLines) > 0
    /\ \E direction \in {"up", "down"} :
         TreeList' = Navigate(TreeList, direction)
    /\ selectedNode' = IF TreeList'.SelectedIndex < Len(displayLines)
                       THEN displayLines[TreeList'.SelectedIndex + 1].Node
                       ELSE selectedNode
    /\ UNCHANGED <<Files, CurrentMatch, PendingDecision, ActivePane, ViewMode,
                   ViewFilter, views, currentView, disk, saveResult,
                   TreeViewType, PURLRanking,
                   FileTree, expandedDirs, displayLines>>
    /\ updateFileList
    /\ UNCHANGED exportVars

\* toggleTreeNode (ENTER in the tree pane, where the current view binds
\* none): the selected directory is expanded or collapsed and the rows are
\* made anew
toggleTreeNode ==
    /\ currentView # "audit_input"
    /\ ~(currentView = "export_dialog" /\ exportKeys)
    /\ ActivePane = "tree"
    /\ IsDir(selectedNode)
    /\ expandedDirs' = IF selectedNode.Path \in expandedDirs
                       THEN expandedDirs \ {selectedNode.Path}
                       ELSE expandedDirs \cup {selectedNode.Path}
    /\ displayLines' = DisplayLines(TreeViewType, FileTree, Files, ViewFilter,
                                    PURLRanking, expandedDirs')
    /\ TreeList' = updateTreeDisplay(TreeList, TreeViewType, displayLines',
                                     selectedNode)
    /\ UNCHANGED <<Files, CurrentMatch, PendingDecision, ActivePane, ViewMode,
                   ViewFilter, selectedNode, views, currentView, disk,
                   saveResult, TreeViewType, PURLRanking, FileTree>>
    /\ updateFileList
    /\ UNCHANGED exportVars

\* navigateFileList: arrow keys in the file pane
navigateFileList ==
    /\ ~isAuditDialogOpen
    /\ ViewMode = "list"
    /\ ActivePane # "tree"
    /\ \E direction \in {"up", "down"} :
         /\ FileList' = Navigate(FileList, direction)
         /\ SelectedFileIndex' = FileList'.SelectedIndex
    /\ UNCHANGED <<Files, CurrentMatch, PendingDecision, ActivePane, ViewMode,
                   ViewFilter, selectedNode, CurrentFileList, views,
                   currentView, disk, saveResult,
                   TreeViewType, PURLRanking,
                   FileTree, expandedDirs, displayLines, TreeList>>
    /\ UNCHANGED exportVars

\* navigateFileListPage: PgUp / PgDn in the file pane (no dialog check)
navigateFileListPage ==
    /\ ViewMode = "list"
    /\ ActivePane = "files"
    /\ \E direction \in {"up", "down"} :
         /\ FileList' = NavigatePage(FileList, direction)
         /\ SelectedFileIndex' = FileList'.SelectedIndex
    /\ UNCHANGED <<Files, CurrentMatch, PendingDecision, ActivePane, ViewMode,
                   ViewFilter, selectedNode, CurrentFileList, views,
                   currentView, disk, saveResult,
                   TreeViewType, PURLRanking,
                   FileTree, expandedDirs, displayLines, TreeList>>
    /\ UNCHANGED exportVars

\* a cycleViewFilter that steps through all three values in either view
NextFilterOneCycle(treeViewType, f) ==
    CASE f = "all"     -> "matched"
      [] f = "matched" -> "pending"
      [] f = "pending" -> "all"
      [] OTHER         -> "all"

\* the filter after one cycleViewFilter step
NextFilter(treeViewType, f) ==
    IF treeViewType = "purls"
    THEN CASE f = "matched" -> "pending"
           [] f = "pending" -> "matched"
           [] OTHER         -> "matched"
    ELSE CASE f = "all"     -> "matched"
           [] f = "matched" -> "pending"
           [] f = "pending" -> "all"
           [] OTHER         -> "all"

\* the node cycleViewFilter leaves selected: the selected one while it is
\* the node of a row, else the node of the first row
Reselect(treeViewType, lines, node) ==
    IF Len(lines) > 0 /\ CurrentIndex(treeViewType, lines, node) = 0
    THEN lines[1].Node
    ELSE node

\* cycleViewFilter ('t'): the next filter, the rows made anew, and the
\* first row selected and highlighted when the selected node has no row
cycleViewFilter ==
    /\ GlobalCharKey
    /\ ~isAuditDialogOpen
    /\ ViewFilter' = NextFilter(TreeViewType, ViewFilter)
    /\ displayLines' = DisplayLines(TreeViewType, FileTree, Files, ViewFilter',
                                    PURLRanking, expandedDirs)
    /\ selectedNode' = Reselect(TreeViewType, displayLines', selectedNode)
    /\ TreeList' =
         IF /\ Len(displayLines') > 0
            /\ CurrentIndex(TreeViewType, displayLines', selectedNode) = 0
         THEN adjustScroll([updateTreeDisplay(TreeList, TreeViewType,
                                              displayLines', selectedNode)
                               EXCEPT !.SelectedIndex = 0])
         ELSE updateTreeDisplay(TreeList, TreeViewType, displayLines',
                                selectedNode)
    /\ UNCHANGED <<Files, CurrentMatch, PendingDecision, ActivePane, ViewMode,
                   views, currentView, disk, saveResult,
                   TreeViewType, PURLRanking, FileTree, expandedDirs>>
    /\ updateFileList
    /\ UNCHANGED exportVars

\* a toggleTreeViewType that keeps the filter whatever it is
ToggledFilterKept(treeViewType, f) == f

\* the filter after toggleTreeViewType: "all" becomes "matched" on the way
\* into the ranking view
ToggledFilter(treeViewType, f) ==
    IF treeViewType = "directories" /\ f = "all" THEN "matched" ELSE f

\* toggleTreeViewType ('p', 'd'): the other view, with its first entry or
\* first directory selected, and the rows made anew
toggleTreeViewType ==
    /\ GlobalCharKey
    /\ ~isAuditDialogOpen
    /\ ViewMode # "content"
    /\ ViewFilter' = ToggledFilter(TreeViewType, ViewFilter)
    /\ IF TreeViewType = "directories"
       THEN /\ TreeViewType' = "purls"
            /\ selectedNode' = IF Len(PURLRanking) > 0
                               THEN NodeOf(PURLRanking[1].PURL, PurlNode(1))
                               ELSE selectedNode
       ELSE /\ TreeViewType' = "directories"
            /\ selectedNode' =
                 IF Len(FileTree.Children) > 0
                 THEN NodeOf(FileTree.nodes[FileTree.Children[1]].Name,
                             FileTree.nodes[FileTree.Children[1]].Path)
                 ELSE RootNode
    /\ displayLines' = DisplayLines(TreeViewType', FileTree, Files, ViewFilter',
                                    PURLRanking, expandedDirs)
    /\ TreeList' = updateTreeDisplay(TreeList, TreeViewType', displayLines',
                                     selectedNode')
    /\ UNCHANGED <<Files, CurrentMatch, PendingDecision, ActivePane, ViewMode,
                   views, currentView, disk, saveResult, PURLRanking,
                   FileTree, expandedDirs>>
    /\ updateFileList
    /\ UNCHANGED exportVars

\* selectItem in the file pane (ENTER where the current view binds none):
\* the content of the selected file is shown; displayFileContent sets
\* app.CurrentMatch when the file has a valid match
selectItem ==
    /\ currentView # "audit_input"
    /\ ~(currentView = "export_dialog" /\ exportKeys)
    /\ ActivePane # "tree"
    /\ ViewMode = "list"
    /\ Len(CurrentFileList) > 0
    /\ SelectedFileIndex >= 0
    /\ SelectedFileIndex < Len(CurrentFileList)
    /\ ViewMode' = "content"
    /\ LET selectedFile == CurrentFileList[SelectedFileIndex + 1]
           k == FirstValid(Files[selectedFile])
       IN  CurrentMatch' = IF k # 0 THEN <<selectedFile, k>> ELSE CurrentMatch
    /\ UNCHANGED <<Files, PendingDecision, ActivePane, ViewFilter,
                   selectedNode, views, currentView, disk, saveResult,
                   TreeViewType, PURLRanking,
                   FileTree, expandedDirs, displayLines, TreeList>>
    /\ updateFileList
    /\ UNCHANGED exportVars

\* handleEscape (ESC where the current view binds none): back to the list
handleEscape ==
    /\ currentView \notin {"audit_input", "audit_error", "save_error",
                           "export_error"}
    /\ ~(currentView = "export_dialog" /\ exportKeys)
    /\ ViewMode = "content"
    /\ ViewMode' = "list"
    /\ CurrentMatch' = NoMatch
    /\ UNCHANGED <<Files, PendingDecision, ActivePane, ViewFilter,
                   selectedNode, views, currentView, disk, saveResult,
                   TreeViewType, PURLRanking,
                   FileTree, expandedDirs, displayLines, TreeList>>
    /\ updateFileList
    /\ UNCHANGED exportVars

----------------------------------------------------------------------------
(* The export engine: export.go *)

\* extractLineRanges: the oss_lines value when it is a string, "" otherwise
extractLineRanges(match) ==
    IF match.OSSLines.kind = "string" THEN match.OSSLines.val ELSE EmptyStr

\* a snippet match's line ranges count for the number of deep-link columns
CountsRanges(match) ==
    /\ match.ID = "snippet"
    /\ extractLineRanges(match) \notin {EmptyStr, Str("all")}

\* getMaxLineRanges: the largest number of comma-separated ranges of any
\* snippet match of the dataset, 1 at least
getMaxLineRanges(files) ==
    LET counts == {Len(Split(extractLineRanges(files[p][i]), ",")) :
                     <<p, i>> \in {<<q, j>> \in UNION {{q} \X DOMAIN files[q] :
                                                         q \in DOMAIN files} :
                                     CountsRanges(files[q][j])}}
        all == counts \cup {1}
    IN  CHOOSE n \in all : \A m \in all : m <= n

\* index of the first token of s at or after i that is in stops, Len(s) + 1
\* when there is none
RECURSIVE RunEnd(_, _, _)
RunEnd(s, i, stops) ==
    IF i > Len(s) \/ s[i] \in stops THEN i ELSE RunEnd(s, i + 1, stops)

GitHubPrefix == <<"pkg:github", "/">>

\* regexp `pkg:github/([^/]+)/([^@?]+)@([^?]+)`: the submatches owner, repo,
\* commit, or <<>> when the identifier does not match
MatchWithCommit(purl) ==
    LET ownerEnd == RunEnd(purl, 3, {"/"})
        repoEnd == RunEnd(purl, ownerEnd + 1, {"@", "?"})
        commitEnd == RunEnd(purl, repoEnd + 1, {"?"})
    IN  IF /\ HasPrefix(purl, GitHubPrefix)
           /\ ownerEnd > 3
           /\ ownerEnd <= Len(purl)
           /\ repoEnd > ownerEnd + 1
           /\ repoEnd <= Len(purl)
           /\ purl[repoEnd] = "@"
           /\ commitEnd > repoEnd + 1
        THEN <<SubSeq(purl, 3, ownerEnd - 1),
               SubSeq(purl, ownerEnd + 1, repoEnd - 1),
               SubSeq(purl, repoEnd + 1, commitEnd - 1)>>
        ELSE <<>>

\* whatever follows the prefix taken for the owner, no repository asked for
MatchOwnerOnly(purl) ==
    IF HasPrefix(purl, GitHubPrefix) /\ Len(purl) > 2
    THEN <<SubSeq(purl, 3, Len(purl)), Str("main")>>
    ELSE <<>>

\* regexp `pkg:github/([^/]+)/([^?]+)`: the submatches owner, repo
MatchWithoutCommit(purl) ==
    LET ownerEnd == RunEnd(purl, 3, {"/"})
        repoEnd == RunEnd(purl, ownerEnd + 1, {"?"})
    IN  IF /\ HasPrefix(purl, GitHubPrefix)
           /\ ownerEnd > 3
           /\ ownerEnd <= Len(purl)
           /\ repoEnd > ownerEnd + 1
        THEN <<SubSeq(purl, 3, ownerEnd - 1),
               SubSeq(purl, ownerEnd + 1, repoEnd - 1)>>
        ELSE <<>>

\* the first package identifier with the prefix "pkg:github/", "" when the
\* match has none
GithubPurl(match) ==
    LET hits == {i \in DOMAIN match.Purl : HasPrefix(match.Purl[i], GitHubPrefix)}
    IN  IF hits = {} THEN EmptyStr
        ELSE match.Purl[CHOOSE i \in hits : \A j \in hits : i <= j]

\* fmt.Sprintf("%s/%s", owner, repo)
RepoKey(owner, repo) == owner \o <<"/">> \o repo

\* a client without timeout asking an endpoint that never answers
LookupResponsesNever == {}

\* the answers of https://api.github.com/repos/<owner>/<repo>; a request
\* not answered within the client's timeout of two seconds ends as an error
LookupResponses ==
    {[kind |-> "ok", branch |-> Str("main")],
     [kind |-> "ok", branch |-> EmptyStr],
     [kind |-> "error", branch |-> EmptyStr],
     [kind |-> "status", branch |-> EmptyStr],
     [kind |-> "decode", branch |-> EmptyStr]}

\* the remote's answer taken as it is, no fallback
FetchedBranchNoFallback(resp) == resp.branch

\* getDefaultBranch on a cache miss: the branch that is cached and returned
FetchedBranch(resp) ==
    IF resp.kind = "ok" /\ resp.branch # EmptyStr
    THEN resp.branch ELSE Str("master")

\* a getDefaultBranch that caches a branch the remote gave, not the fallback
getDefaultBranchNoFallbackCache(cache, owner, repo, resp) ==
    LET repoKey == RepoKey(owner, repo)
    IN  IF repoKey \in DOMAIN cache
        THEN [branch |-> cache[repoKey], cache |-> cache, asked |-> <<>>]
        ELSE [branch |-> FetchedBranch(resp),
              cache |-> IF resp.kind = "ok" /\ resp.branch # EmptyStr
                        THEN cache @@ (repoKey :> resp.branch) ELSE cache,
              asked |-> <<repoKey>>]

\* getDefaultBranch: the cached branch of the repository, or else the answer
\* resp of one remote request, cached whether it is the remote's branch or
\* the fallback.  The result: the branch, the cache afterwards, and the
\* repository keys a request was sent for.
getDefaultBranch(cache, owner, repo, resp) ==
    LET repoKey == RepoKey(owner, repo)
    IN  IF repoKey \in DOMAIN cache
        THEN [branch |-> cache[repoKey], cache |-> cache, asked |-> <<>>]
        ELSE [branch |-> FetchedBranch(resp),
              cache |-> cache @@ (repoKey :> FetchedBranch(resp)),
              asked |-> <<repoKey>>]

\* the range as it is behind "#L", start-end not rewritten
LineAnchorPlain(lineRange) ==
    IF lineRange = EmptyStr THEN EmptyStr ELSE <<"#L">> \o lineRange

\* the anchor generateGitHubDeeplinkWithRange adds for a line range
LineAnchor(lineRange) ==
    IF lineRange = EmptyStr THEN EmptyStr
    ELSE IF Contains(lineRange, "-")
    THEN LET parts == Split(lineRange, "-")
         IN  IF Len(parts) = 2
             THEN <<"#L">> \o TrimSpace(parts[1]) \o <<"-L">>
                  \o TrimSpace(parts[2])
             ELSE EmptyStr
    ELSE <<"#L">> \o lineRange

\* fmt.Sprintf("https://github.com/%s/%s/blob/%s/%s", ...)
BaseURL(owner, repo, commit, filePath) ==
    <<"https://github.com", "/">> \o owner \o <<"/">> \o repo
    \o <<"/", "blob", "/">> \o commit \o <<"/">> \o filePath

\* generateGitHubDeeplinkWithRange: the link, the cache afterwards and the
\* repository keys a request was sent for
generateGitHubDeeplinkWithRange(purl, filePath, lineRange, cache, resp) ==
    LET pinned == MatchWithCommit(purl)
        bare == MatchWithoutCommit(purl)
    IN  IF pinned # <<>>
        THEN [link |-> BaseURL(pinned[1], pinned[2], pinned[3], filePath)
                       \o LineAnchor(lineRange),
              cache |-> cache, asked |-> <<>>]
        ELSE IF bare = <<>>
        THEN [link |-> EmptyStr, cache |-> cache, asked |-> <<>>]
        ELSE LET b == getDefaultBranch(cache, bare[1], bare[2], resp)
             IN  [link |-> BaseURL(bare[1], bare[2], b.branch, filePath)
                           \o LineAnchor(lineRange),
                  cache |-> b.cache, asked |-> b.asked]

\* the links alone, no slice of n cells made first
PadLinksNone(links, n) == links

\* a slice of n empty strings, links[i] put in place for i up to n
PadLinks(links, n) ==
    [i \in 1..n |-> IF i <= Len(links) THEN links[i] ELSE EmptyStr]

\* the loop of generateMultipleDeeplinks over the ranges from the i-th on,
\* left at the n-th, one call of generateGitHubDeeplinkWithRange after the
\* other
RECURSIVE LinksFrom(_, _, _, _, _, _, _)
LinksFrom(githubPurl, filePath, ranges, i, n, cache, resp) ==
    IF i > Len(ranges) \/ i > n
    THEN [links |-> <<>>, cache |-> cache, asked |-> <<>>]
    ELSE LET one == generateGitHubDeeplinkWithRange(
                        githubPurl, filePath, TrimSpace(ranges[i]), cache, resp)
             rest == LinksFrom(githubPurl, filePath, ranges, i + 1, n,
                               one.cache, resp)
         IN  [links |-> <<one.link>> \o rest.links, cache |-> rest.cache,
              asked |-> one.asked \o rest.asked]

\* line ranges used whatever the classification of the match
generateMultipleDeeplinksAnyID(match, lineRanges, maxRanges, cache, resp) ==
    LET githubPurl == GithubPurl(match)
    IN  IF Len(match.Purl) = 0 \/ githubPurl = EmptyStr
        THEN [links |-> PadLinks(<<>>, maxRanges), cache |-> cache,
              asked |-> <<>>]
        ELSE LET r == LinksFrom(githubPurl, match.File,
                                IF lineRanges \notin {EmptyStr, Str("all")}
                                THEN Split(lineRanges, ",") ELSE <<EmptyStr>>,
                                1, maxRanges, cache, resp)
             IN  [r EXCEPT !.links = PadLinks(r.links, maxRanges)]

\* generateMultipleDeeplinks: the deep-link cells, the cache afterwards and
\* the repository keys a request was sent for
generateMultipleDeeplinks(match, lineRanges, maxRanges, cache, resp) ==
    LET githubPurl == GithubPurl(match)
    IN  IF Len(match.Purl) = 0 \/ githubPurl = EmptyStr
        THEN [links |-> PadLinks(<<>>, maxRanges), cache |-> cache,
              asked |-> <<>>]
        ELSE IF /\ match.ID = "snippet"
                /\ lineRanges \notin {EmptyStr, Str("all")}
        THEN LET r == LinksFrom(githubPurl, match.File,
                                Split(lineRanges, ","), 1, maxRanges, cache,
                                resp)
             IN  [r EXCEPT !.links = PadLinks(r.links, maxRanges)]
        ELSE LET one == generateGitHubDeeplinkWithRange(
                            githubPurl, match.File, EmptyStr, cache, resp)
             IN  [links |-> PadLinks(<<one.link>>, maxRanges),
                  cache |-> one.cache, asked |-> one.asked]


\* the header record of performCSVExport
ExportHeader(maxRanges) ==
    <<Str("File Path"), Str("Match Type"), Str("PURL"), Str("License"),
      Str("Status"), Str("Comment"), Str("Line Ranges")>>
    \o IF maxRanges > 1
       THEN [i \in 1..maxRanges |-> <<"Deeplink", " ", Itoa(i)>>]
       ELSE <<Str("Deeplink")>>

\* status column: from the latest decision of the match
\* a status column taken from the first entry of the history
ExportStatusOfFirst(match) ==
    IF Len(match.AuditCmd) = 0 THEN Str("Pending")
    ELSE LET d == ToLower(match.AuditCmd[1].Decision)
         IN  IF d = Str("identified") THEN Str("Accepted")
             ELSE IF d = Str("ignored") THEN Str("Ignored")
             ELSE Str("Pending")

ExportStatus(match) ==
    IF Len(match.AuditCmd) = 0 THEN Str("Pending")
    ELSE LET d == ToLower(match.AuditCmd[Len(match.AuditCmd)].Decision)
         IN  IF d = Str("identified") THEN Str("Accepted")
             ELSE IF d = Str("ignored") THEN Str("Ignored")
             ELSE Str("Pending")

\* the record performCSVExport writes for a path, with the cache afterwards
\* and the repository keys a request was sent for
ExportRecord(files, filePath, maxRanges, cache, resp) ==
    LET matches == files[filePath]
        k == FirstValid(matches)
    IN  IF Len(matches) = 0 \/ k = 0
        THEN [record |-> <<filePath, Str("no-match"), EmptyStr, EmptyStr,
                           Str("Pending"), EmptyStr, EmptyStr>>
                         \o PadLinks(<<>>, maxRanges),
              cache |-> cache, asked |-> <<>>]
        ELSE LET match == matches[k]
                 lineRanges == extractLineRanges(match)
                 d == generateMultipleDeeplinks(match, lineRanges, maxRanges,
                                                cache, resp)
             IN  [record |->
                    <<filePath, Str(match.ID), Join(match.Purl, <<";", " ">>),
                      Join(match.Licenses, <<";", " ">>), ExportStatus(match),
                      IF Len(match.AuditCmd) = 0 THEN EmptyStr
                      ELSE match.AuditCmd[Len(match.AuditCmd)].Assessment,
                      lineRanges>> \o d.links,
                  cache |-> d.cache, asked |-> d.asked]

\* An export goroutine (performCSVExportAsync), by position:
\*   "create"  before os.Create
\*   "header"  file created, before getMaxLineRanges and the header
\*   "rows"    in the loop over allFiles, todo being the paths still to come
\*   "flush"   returned from the loop; the deferred writer.Flush() is next
\*   "close"   the deferred file.Close() is next
\*   "done"    performCSVExport has returned
\* rows are the records handed to writer.Write, buf those still in the
\* csv.Writer's buffer, off the number of records its file descriptor is
\* past, err the failure shown with showExportError ("" for none), lost
\* whether the deferred Flush failed.
NewExport ==
    [pc |-> "create", todo |-> {}, rows |-> <<>>, buf |-> <<>>, off |-> 0,
     maxRanges |-> 0, err |-> "", lost |-> FALSE]

Running(t) == exports[t].pc # "done"

\* a position of the CSV file no write has filled
Hole == [by |-> 0, cells |-> <<>>]

\* the file after the records are written at the descriptor's offset
WriteAt(file, off, by, records) ==
    LET end == off + Len(records)
        n == IF Len(file) > end THEN Len(file) ELSE end
    IN  [i \in 1..n |->
           IF off < i /\ i <= end THEN [by |-> by, cells |-> records[i - off]]
           ELSE IF i <= Len(file) THEN file[i]
           ELSE Hole]

\* showExportError: the export_error view is created, unless it is there,
\* and made the current view
ShowExportErrorEffect ==
    /\ views' = views \cup {"export_error"}
    /\ currentView' = IF "export_error" \in views THEN currentView
                      ELSE "export_error"

\* 'e' / 'E': showExportDialog unless a dialog is open
showExportDialog ==
    /\ GlobalCharKey
    /\ ~isAuditDialogOpen
    /\ views' = views \cup {"export_dialog"}
    /\ currentView' = "export_dialog"
    /\ exportKeys' = TRUE
    /\ UNCHANGED generatedWithAPIKey
    /\ UNCHANGED <<Files, CurrentMatch, PendingDecision, ActivePane, ViewMode,
                   ViewFilter, selectedNode, disk, saveResult,
                   TreeViewType, PURLRanking,
                   FileTree, expandedDirs, displayLines, TreeList>>
    /\ updateFileList
    /\ UNCHANGED <<exports, userEvents, csvFile, defaultBranchCache, lookups>>

\* ESC on export_dialog: closeExportDialog
closeExportDialog ==
    /\ currentView = "export_dialog"
    /\ exportKeys
    /\ exportKeys' = FALSE
    /\ UNCHANGED generatedWithAPIKey
    /\ views' = views \ {"export_dialog"}
    /\ currentView' = PaneView
    /\ UNCHANGED <<Files, CurrentMatch, PendingDecision, ActivePane, ViewMode,
                   ViewFilter, selectedNode, disk, saveResult,
                   TreeViewType, PURLRanking,
                   FileTree, expandedDirs, displayLines, TreeList>>
    /\ updateFileList
    /\ UNCHANGED <<exports, userEvents, csvFile, defaultBranchCache, lookups>>

\* ENTER on export_dialog: the bindings of the dialog are deleted and the
\* export goroutine is started; at most cap exports are followed
StartExport(cap) ==
    /\ currentView = "export_dialog"
    /\ exportKeys
    /\ Len(exports) < cap
    /\ exportKeys' = FALSE
    /\ UNCHANGED generatedWithAPIKey
    /\ exports' = Append(exports, NewExport)
    /\ UNCHANGED <<Files, CurrentMatch, PendingDecision, ActivePane, ViewMode,
                   ViewFilter, selectedNode, views, currentView, disk,
                   saveResult,
                   TreeViewType, PURLRanking,
                   FileTree, expandedDirs, displayLines, TreeList>>
    /\ updateFileList
    /\ UNCHANGED <<userEvents, csvFile, defaultBranchCache, lookups>>

startExport == StartExport(MaxExports)

\* the same, followed for the first export of a behaviour only
startExportOnce == StartExport(1)

\* ESC on export_error
closeExportError ==
    /\ currentView = "export_error"
    /\ views' = views \ {"export_error"}
    /\ currentView' = PaneView
    /\ UNCHANGED <<Files, CurrentMatch, PendingDecision, ActivePane, ViewMode,
                   ViewFilter, selectedNode, disk, saveResult,
                   TreeViewType, PURLRanking,
                   FileTree, expandedDirs, displayLines, TreeList>>
    /\ updateFileList
    /\ UNCHANGED exportVars

\* the main loop runs a function queued with g.Update.  The queued functions
\* that only rewrite the text of export_dialog (updateExportProgress,
\* updateExportProgressDialog) change nothing of this state and are left
\* out; the one that is kept closes the dialog of a finished export.
runUserEvent ==
    /\ userEvents # <<>>
    /\ userEvents' = Tail(userEvents)
    /\ views' = views \ {"export_dialog"}
    /\ currentView' = PaneView
    /\ UNCHANGED <<Files, CurrentMatch, PendingDecision, ActivePane, ViewMode,
                   ViewFilter, selectedNode, disk, saveResult,
                   TreeViewType, PURLRanking,
                   FileTree, expandedDirs, displayLines, TreeList>>
    /\ updateFileList
    /\ UNCHANGED <<exports, csvFile, exportKeys, defaultBranchCache, lookups,
                   generatedWithAPIKey>>

\* a goroutine that empties the decision histories it has read
ExportFrameClearingHistories ==
    /\ Files' = [p \in DOMAIN Files |->
                   [j \in DOMAIN Files[p] |->
                      [Files[p][j] EXCEPT !.AuditCmd = <<>>]]]
    /\ UNCHANGED <<CurrentMatch, PendingDecision, ActivePane, ViewMode,
                   ViewFilter, selectedNode, CurrentFileList,
                   SelectedFileIndex, FileList, disk, saveResult, exportKeys,
                   generatedWithAPIKey,
                   TreeViewType, PURLRanking,
                   FileTree, expandedDirs, displayLines, TreeList>>

\* the goroutine leaves the store and the GUI state other than the views
\* alone
ExportFrame ==
    UNCHANGED <<Files, CurrentMatch, PendingDecision, ActivePane, ViewMode,
                ViewFilter, selectedNode, CurrentFileList, SelectedFileIndex,
                FileList, disk, saveResult, exportKeys,
                generatedWithAPIKey,
                TreeViewType, PURLRanking,
                FileTree, expandedDirs, displayLines, TreeList>>

\* os.Create(filename): the file is truncated, or the call fails and the
\* error is shown
exportCreate(t) ==
    /\ exports[t].pc = "create"
    /\ \/ /\ csvFile' = <<>>
          /\ exports' = [exports EXCEPT ![t].pc = "header"]
          /\ UNCHANGED <<views, currentView>>
       \/ /\ exports' = [exports EXCEPT ![t].pc = "done", ![t].err = "create"]
          /\ ShowExportErrorEffect
          /\ UNCHANGED csvFile
    /\ UNCHANGED <<userEvents, defaultBranchCache, lookups>>
    /\ ExportFrame

\* writer.Write(record) by export e (number t): the record goes to the
\* buffer; when the buffer fills, what it held is written to the file first,
\* and a failure of that write is the error writer.Write returns.  The
\* result: the export, the file, and whether the write failed.
WriterWrite(e, t, file, record, full, ok) ==
    IF ~full \/ e.buf = <<>>
    THEN [task |-> [e EXCEPT !.rows = Append(@, record),
                             !.buf = Append(@, record)],
          file |-> file, failed |-> FALSE]
    ELSE IF ok
    THEN [task |-> [e EXCEPT !.rows = Append(@, record),
                             !.buf = <<record>>,
                             !.off = @ + Len(e.buf)],
          file |-> WriteAt(file, e.off, t, e.buf), failed |-> FALSE]
    ELSE [task |-> [e EXCEPT !.rows = Append(@, record),
                             !.pc = "flush", !.err = "write"],
          file |-> file, failed |-> TRUE]

\* getMaxLineRanges, the header, and the collection of allFiles
exportHeader(t) ==
    /\ exports[t].pc = "header"
    /\ \E w \in {WriterWrite(exports[t], t, csvFile,
                              ExportHeader(getMaxLineRanges(Files)),
                              FALSE, TRUE)} :
         /\ exports' = [exports EXCEPT ![t] =
                          [w.task EXCEPT !.pc = "rows",
                                         !.maxRanges = getMaxLineRanges(Files),
                                         !.todo = DOMAIN Files]]
         /\ csvFile' = w.file
    /\ UNCHANGED <<views, currentView, userEvents, defaultBranchCache, lookups>>
    /\ ExportFrame

\* one pass of the loop over allFiles: the paths come in the order of a map
\* iteration; a record that needs the default branch of a repository not in
\* the cache makes getDefaultBranch ask for it and cache what it returns
exportRow(t) ==
    /\ exports[t].pc = "rows"
    /\ \E filePath \in exports[t].todo, resp \in LookupResponses,
          full \in BOOLEAN, ok \in BOOLEAN :
         \E r \in {ExportRecord(Files, filePath, exports[t].maxRanges,
                                defaultBranchCache, resp)} :
         \E w \in {WriterWrite(exports[t], t, csvFile, r.record, full, ok)} :
             /\ exports' = [exports EXCEPT ![t] =
                              [w.task EXCEPT !.todo = @ \ {filePath}]]
             /\ csvFile' = w.file
             /\ IF w.failed THEN ShowExportErrorEffect
                ELSE UNCHANGED <<views, currentView>>
             /\ defaultBranchCache' = r.cache
             /\ lookups' = lookups \o [i \in DOMAIN r.asked |->
                                         [key |-> r.asked[i], by |-> t,
                                          path |-> filePath,
                                          answer |-> resp,
                                          got |-> FetchedBranch(resp)]]
    /\ UNCHANGED userEvents
    /\ ExportFrame

\* what an unsynchronised read of match.AuditCmd can give while the main
\* goroutine appends to it: the history before, the history after, or the
\* grown history with an element whose fields are not all written yet
RacyReads(before, after, ptr) ==
    LET old == HistoryOf(before, ptr)
        d == HistoryOf(after, ptr)[Len(HistoryOf(after, ptr))]
        torn == {[d EXCEPT !.Decision = a, !.Assessment = b] :
                    a \in {EmptyStr, d.Decision},
                    b \in {EmptyStr, d.Assessment}}
    IN  {[before EXCEPT ![ptr[1]][ptr[2]].AuditCmd = h] :
            h \in {old, HistoryOf(after, ptr)}
                  \cup {Append(old, x) : x \in torn}}

\* a pass of the loop whose read of the match runs while saveAuditDecision
\* appends to the history of that match: the goroutine and the handler
\* share app.ScanData without a lock.  The record goes to the writer's
\* buffer.
exportRowDuringSave(t) ==
    /\ exports[t].pc = "rows"
    /\ CurrentMatch # NoMatch
    /\ PendingDecision # EmptyStr
    /\ CurrentMatch[1] \in exports[t].todo
    /\ saveAuditDecisionHandler
    /\ \E seen \in RacyReads(Files, Files', CurrentMatch),
          resp \in LookupResponses :
         \E r \in {ExportRecord(seen, CurrentMatch[1], exports[t].maxRanges,
                                defaultBranchCache, resp)} :
         \E w \in {WriterWrite(exports[t], t, csvFile, r.record, FALSE,
                                TRUE)} :
             /\ exports' = [exports EXCEPT ![t] =
                              [w.task EXCEPT !.todo = @ \ {CurrentMatch[1]}]]
             /\ csvFile' = w.file
             /\ defaultBranchCache' = r.cache
             /\ lookups' = lookups \o [i \in DOMAIN r.asked |->
                                         [key |-> r.asked[i], by |-> t,
                                          path |-> CurrentMatch[1],
                                          answer |-> resp,
                                          got |-> FetchedBranch(resp)]]
    /\ UNCHANGED <<userEvents, exportKeys, generatedWithAPIKey>>

\* after the loop: the function that closes the dialog is queued with
\* g.Update and performCSVExport returns nil; its deferred calls follow
exportFinish(t) ==
    /\ exports[t].pc = "rows"
    /\ exports[t].todo = {}
    /\ exports' = [exports EXCEPT ![t].pc = "flush"]
    /\ userEvents' = Append(userEvents, "close")
    /\ UNCHANGED <<views, currentView, csvFile, defaultBranchCache, lookups>>
    /\ ExportFrame

\* the deferred writer.Flush(): the buffer is written to the file at the
\* descriptor's offset, or the write fails and nothing looks at the error;
\* after a failed writer.Write nothing more is written
exportFlush(t) ==
    /\ exports[t].pc = "flush"
    /\ LET e == exports[t]
       IN  \/ /\ e.err = ""
              /\ csvFile' = WriteAt(csvFile, e.off, t, e.buf)
              /\ exports' = [exports EXCEPT ![t].pc = "close",
                                            ![t].buf = <<>>,
                                            ![t].off = @ + Len(e.buf)]
           \/ /\ exports' = [exports EXCEPT ![t].pc = "close",
                                            ![t].lost = e.buf # <<>>]
              /\ UNCHANGED csvFile
    /\ UNCHANGED <<views, currentView, userEvents, defaultBranchCache, lookups>>
    /\ ExportFrame

\* the deferred file.Close()
exportClose(t) ==
    /\ exports[t].pc = "close"
    /\ exports' = [exports EXCEPT ![t].pc = "done"]
    /\ UNCHANGED <<views, currentView, userEvents, csvFile,
                   defaultBranchCache, lookups>>
    /\ ExportFrame

----------------------------------------------------------------------------
(* Detection of a result file made with an API key: isValidFileURL and
   isGeneratedWithAPIKey, which the tests of the repository call *)

\* a URL is valid whenever it is not empty, whatever it starts with
isValidFileURLAnyScheme(fileURL) == TrimSpace(fileURL) # EmptyStr

\* isValidFileURL: the URL without surrounding white space is not empty and
\* starts with https://
isValidFileURL(fileURL) ==
    LET trimmed == TrimSpace(fileURL)
    IN  trimmed # EmptyStr /\ HasPrefix(trimmed, Str("https://"))

\* the result is that of the first match classified file or snippet alone
isGeneratedWithAPIKeyFirstOnly(files) ==
    \A p \in DOMAIN files :
       FirstValid(files[p]) # 0 =>
          isValidFileURL(files[p][FirstValid(files[p])].FileURL)

\* isGeneratedWithAPIKey: false as soon as a match classified file or
\* snippet has no valid file URL, true otherwise
isGeneratedWithAPIKey(files) ==
    \A p \in DOMAIN files : \A i \in DOMAIN files[p] :
       IsValidID(files[p][i].ID) => isValidFileURL(files[p][i].FileURL)

\* a FileMatch with its file_url
KeyMatch(id, fileURL) ==
    [ID |-> id, File |-> EmptyStr, Purl |-> <<>>, Licenses |-> <<>>,
     OSSLines |-> NilLines, AuditCmd |-> <<>>, FileURL |-> fileURL]

\* the table of TestIsValidFileURL
TestIsValidFileURL ==
    {[fileURL |-> <<"https://", "api.scanoss.com/file_contents/123abc">>,
      expected |-> TRUE],
     [fileURL |-> <<" ", " ", "https://", "api.scanoss.com/file_contents/123abc",
                    " ", " ">>,
      expected |-> TRUE],
     [fileURL |-> EmptyStr, expected |-> FALSE],
     [fileURL |-> <<" ">>, expected |-> FALSE],
     [fileURL |-> <<" ", " ", " ", "\t", "\n", " ", " ", " ">>,
      expected |-> FALSE],
     [fileURL |-> <<"http://", "api.scanoss.com/file_contents/123abc">>,
      expected |-> FALSE],
     [fileURL |-> <<"not-a-url">>, expected |-> FALSE],
     [fileURL |-> <<"https://", "example.com/file/123">>, expected |-> TRUE]}

\* the table of TestIsGeneratedWithAPIKey
TestIsGeneratedWithAPIKey ==
    LET test == Str("test.go")
        url(n) == <<"https://", "api.scanoss.com/file_contents/", n>>
    IN  {[files |-> (test :> <<KeyMatch("file", url("123abc"))>>),
          expected |-> TRUE],
         [files |-> (test :> <<KeyMatch("file", EmptyStr)>>),
          expected |-> FALSE],
         [files |-> (test :> <<KeyMatch("file", <<" ">>)>>),
          expected |-> FALSE],
         [files |-> (test :> <<KeyMatch("file", <<" ", " ", " ", "\t", "\n",
                                                   " ", " ", " ">>)>>),
          expected |-> FALSE],
         [files |-> (test :> <<KeyMatch("snippet", url("456def"))>>),
          expected |-> TRUE],
         [files |-> (Str("test1.go") :> <<KeyMatch("file", url("123abc"))>>)
                    @@ (Str("test2.go") :> <<KeyMatch("snippet", <<" ">>)>>),
          expected |-> FALSE],
         [files |-> (test :> <<KeyMatch("none", EmptyStr)>>),
          expected |-> TRUE],
         [files |-> (test :> <<KeyMatch("file", <<"invalid-url">>)>>),
          expected |-> FALSE]}

\* the file URLs and the matches of the datasets the detection is run on
KeyURLs == {r.fileURL : r \in TestIsValidFileURL}

KeyMatches == {KeyMatch(id, u) : id \in {"file", "snippet", "none"},
                                 u \in KeyURLs}

\* r.go with one or two matches, alone or next to a/b.go with one match
KeyStores ==
    LET first == {<<m>> : m \in KeyMatches}
                 \cup {<<m, n>> : m \in KeyMatches,
                                  n \in {KeyMatch("file", Str("not-a-url")),
                                         KeyMatch("snippet", EmptyStr),
                                         KeyMatch("none", <<" ">>),
                                         KeyMatch("file", <<"https://",
                                                            "example.com/file/123">>)}}
        second == {KeyMatch("none", EmptyStr),
                   KeyMatch("snippet", <<" ">>),
                   KeyMatch("file", <<"https://", "example.com/file/123">>)}
    IN  {(PathR :> ms) : ms \in first}
        \cup {(PathR :> ms) @@ (PathAB :> <<m>>) : ms \in first, m \in second}

\* the call of isGeneratedWithAPIKey on the loaded result file
checkGeneratedWithAPIKey ==
    /\ generatedWithAPIKey = <<>>
    /\ generatedWithAPIKey' = <<isGeneratedWithAPIKey(Files)>>
    /\ UNCHANGED ledgerVars
    /\ UNCHANGED <<exports, userEvents, csvFile, exportKeys,
                   defaultBranchCache, lookups>>

----------------------------------------------------------------------------
(* Initial state: main() after loadScanData, buildFileTree, initTreeState
   and the first updateFileList *)

InitStore(stores, filters) ==
    /\ Files \in stores
    /\ ViewFilter \in filters
    /\ CurrentMatch = NoMatch
    /\ PendingDecision = EmptyStr
    /\ ActivePane = "tree"
    /\ ViewMode = "list"
    /\ TreeViewType = "directories"
    /\ PURLRanking \in buildPURLRanking(Files)
    /\ FileTree = buildFileTree(Files)
    /\ selectedNode = InitialNode(FileTree, Files, ViewFilter)
    /\ expandedDirs = {EmptyStr}
    /\ displayLines = DisplayLines(TreeViewType, FileTree, Files, ViewFilter,
                                   PURLRanking, expandedDirs)
    /\ TreeList = updateTreeDisplay(NewScrollableList(<<>>), TreeViewType,
                                    displayLines, selectedNode)
    /\ CurrentFileList = FilteredFiles(Files, ViewFilter, selectedNode.Path)
    /\ FileList = SetItems(NewScrollableList(<<>>),
                           [i \in DOMAIN CurrentFileList |->
                              <<StatusIcon(Files[CurrentFileList[i]])>>
                              \o CurrentFileList[i]])
    /\ SelectedFileIndex = 0
    /\ views = {}
    /\ currentView = "none"
    /\ disk = MarshalFiles(Files)
    /\ saveResult = "none"
    /\ exports = <<>>
    /\ userEvents = <<>>
    /\ csvFile = <<>>
    /\ exportKeys = FALSE
    /\ generatedWithAPIKey = <<>>
    /\ defaultBranchCache = <<>>
    /\ lookups = <<>>

Init == InitStore(LedgerStores, FilterValues)

InitExport == InitStore(ExportStores, {"all"})

InitLinks == InitStore(LinkStores, {"all"})

InitAudit == InitStore({AuditedStore}, {"all"})

InitLive == InitStore(LiveStores, {"all"})

InitView == InitStore({ViewStore}, FilterValues)

InitTree == InitStore(TreeStores, FilterValues)

InitKey == InitStore(KeyStores, FilterValues)

Next ==
    \/ showAcceptDialog
    \/ showIgnoreDialog
    \/ closeAuditError
    \/ closeAuditDialog
    \/ closeSaveError
    \/ saveAuditDecision
    \/ switchPane
    \/ navigateTree
    \/ navigateFileList
    \/ navigateFileListPage
    \/ cycleViewFilter
    \/ selectItem
    \/ handleEscape

Spec == Init /\ [][Next]_vars

\* the export dialog and the export goroutines
NextExport ==
    \/ showExportDialog
    \/ closeExportDialog
    \/ startExport
    \/ closeExportError
    \/ runUserEvent
    \/ \E t \in DOMAIN exports : exportCreate(t)
    \/ \E t \in DOMAIN exports : exportHeader(t)
    \/ \E t \in DOMAIN exports : exportRow(t)
    \/ \E t \in DOMAIN exports : exportFinish(t)
    \/ \E t \in DOMAIN exports : exportFlush(t)
    \/ \E t \in DOMAIN exports : exportClose(t)

SpecExport == InitExport /\ [][NextExport]_vars

\* one export over each of the datasets of LinkStores
NextLinks ==
    \/ showExportDialog
    \/ closeExportDialog
    \/ startExportOnce
    \/ closeExportError
    \/ runUserEvent
    \/ \E t \in DOMAIN exports : exportCreate(t)
    \/ \E t \in DOMAIN exports : exportHeader(t)
    \/ \E t \in DOMAIN exports : exportRow(t)
    \/ \E t \in DOMAIN exports : exportFinish(t)
    \/ \E t \in DOMAIN exports : exportFlush(t)
    \/ \E t \in DOMAIN exports : exportClose(t)

SpecLinks == InitLinks /\ [][NextLinks]_vars

\* the goroutine of an export is scheduled until it returns: every call it
\* makes returns (the sleeps end, the request ends with the client's
\* timeout at the latest); and the main loop takes what is sent on the
\* channel of queued functions
ExportFairness ==
    /\ WF_vars(\E t \in DOMAIN exports : exportCreate(t))
    /\ WF_vars(\E t \in DOMAIN exports : exportHeader(t))
    /\ WF_vars(\E t \in DOMAIN exports : exportRow(t))
    /\ WF_vars(\E t \in DOMAIN exports : exportFinish(t))
    /\ WF_vars(\E t \in DOMAIN exports : exportFlush(t))
    /\ WF_vars(\E t \in DOMAIN exports : exportClose(t))
    /\ WF_vars(runUserEvent)

\* one export, fairly scheduled, over each of the datasets of LiveStores
SpecLive == InitLive /\ [][NextLinks]_vars /\ ExportFairness

\* decisions recorded in the foreground while one export runs
NextAudit ==
    \/ showAcceptDialog
    \/ showIgnoreDialog
    \/ closeAuditDialog
    \/ closeSaveError
    \/ saveAuditDecision
    \/ switchPane
    \/ navigateTree
    \/ navigateFileList
    \/ showExportDialog
    \/ closeExportDialog
    \/ startExportOnce
    \/ closeExportError
    \/ runUserEvent
    \/ \E t \in DOMAIN exports : exportCreate(t)
    \/ \E t \in DOMAIN exports : exportHeader(t)
    \/ \E t \in DOMAIN exports : exportRow(t)
    \/ \E t \in DOMAIN exports : exportRowDuringSave(t)
    \/ \E t \in DOMAIN exports : exportFinish(t)
    \/ \E t \in DOMAIN exports : exportFlush(t)
    \/ \E t \in DOMAIN exports : exportClose(t)

SpecAudit == InitAudit /\ [][NextAudit]_vars

\* the two tree views, the filter and the ledger
NextView ==
    \/ toggleTreeViewType
    \/ cycleViewFilter
    \/ navigateTree
    \/ switchPane
    \/ navigateFileList
    \/ navigateFileListPage
    \/ selectItem
    \/ handleEscape
    \/ showAcceptDialog
    \/ showIgnoreDialog
    \/ closeAuditError
    \/ closeAuditDialog
    \/ closeSaveError
    \/ saveAuditDecision

SpecView == InitView /\ [][NextView]_vars

\* the keys that change what the tree pane shows
NextTree ==
    \/ toggleTreeNode
    \/ navigateTree
    \/ cycleViewFilter
    \/ toggleTreeViewType

SpecTree == InitTree /\ [][NextTree]_vars

\* the detection of the API key mode and the keys of the tree pane
NextKey ==
    \/ checkGeneratedWithAPIKey
    \/ cycleViewFilter
    \/ switchPane

SpecKey == InitKey /\ [][NextKey]_vars

----------------------------------------------------------------------------
(* Properties of the audit ledger *)

\* a step of saveAuditDecision taken with a current match and a pending
\* decision: a RecordDecision call
RecordDecision ==
    /\ saveAuditDecision
    /\ CurrentMatch # NoMatch
    /\ PendingDecision # EmptyStr

\* C1: every RecordDecision makes the history of the current match exactly
\* one entry longer, the new entry last and carrying the pending outcome,
\* with the earlier entries as they were; the history of every other match
\* is unchanged, and no other step changes any history or the set of paths
C1_AppendOnly ==
    [][/\ DOMAIN Files' = DOMAIN Files
       /\ \A p \in DOMAIN Files :
            /\ Len(Files'[p]) = Len(Files[p])
            /\ \A i \in DOMAIN Files[p] :
                 LET h == Files[p][i].AuditCmd
                     hn == Files'[p][i].AuditCmd
                 IN  IF RecordDecision /\ <<p, i>> = CurrentMatch
                     THEN /\ Len(hn) = Len(h) + 1
                          /\ SubSeq(hn, 1, Len(h)) = h
                          /\ hn[Len(hn)].Decision = PendingDecision
                          /\ PendingDecision \in {Str("identified"),
                                                  Str("ignored")}
                     ELSE hn = h]_vars

\* a history holds the loaded entry and a recorded one behind it, and the
\* other auditable match has a recorded entry as well
C1_Witness ==
    /\ Len(Files[PathAB][1].AuditCmd) = 2
    /\ Files[PathAB][1].AuditCmd[1] = LoadedDecision
    /\ Len(Files[PathR][2].AuditCmd) = 1

\* the file pane selects no file, or a file without a match classified file
\* or snippet
UnauditableSelection ==
    \/ ActivePane # "files"
    \/ Len(CurrentFileList) = 0
    \/ SelectedFileIndex >= Len(CurrentFileList)
    \/ ~HasValidMatch(Files[CurrentFileList[SelectedFileIndex + 1]])

C3_SaveFailureKeepsDecision ==
    [][/\ (RecordDecision /\ disk' # MarshalFiles(Files'))
          => /\ "save_error" \in views'
             /\ currentView' = "save_error"
             /\ saveResult' # ""
             /\ LET hn == HistoryOf(Files', CurrentMatch)
                IN  /\ hn = Append(HistoryOf(Files, CurrentMatch), hn[Len(hn)])
                    /\ hn[Len(hn)].Decision = PendingDecision
             /\ ~PassesFilter(Files', "pending", CurrentMatch[1])
       /\ closeSaveError => Files' = Files]_vars

\* a save failed, its error was dismissed, and the decision is still there
C3_Witness ==
    /\ saveResult \in {"open", "write"}
    /\ "save_error" \notin views
    /\ Len(Files[PathR][2].AuditCmd) = 1
    /\ ~PassesFilter(Files, "pending", PathR)

\* histories agree entry by entry on outcome, comment and instant
SameHistory(h, g) ==
    /\ Len(h) = Len(g)
    /\ \A i \in DOMAIN h :
         /\ h[i].Decision = g[i].Decision
         /\ h[i].Assessment = g[i].Assessment
         /\ TimeEqual(h[i].Timestamp, g[i].Timestamp)

SameHistories(f, g) ==
    /\ DOMAIN f = DOMAIN g
    /\ \A p \in DOMAIN f :
         /\ Len(f[p]) = Len(g[p])
         /\ \A i \in DOMAIN f[p] : SameHistory(f[p][i].AuditCmd, g[p][i].AuditCmd)

IsPrefix(h, g) == Len(h) <= Len(g) /\ SameHistory(h, SubSeq(g, 1, Len(h)))

\* C4: at every point the result file is a complete document, the histories
\* it holds are those of a state the store has been in (each a prefix of the
\* history in memory), and after a save reported as successful it holds the
\* store as it is
C4_FileNeverPartial ==
    /\ ValidDocument(disk)
    /\ LET onDisk == UnmarshalFiles(disk)
       IN  /\ DOMAIN onDisk = DOMAIN Files
           /\ \A p \in DOMAIN Files :
                /\ Len(onDisk[p]) = Len(Files[p])
                /\ \A i \in DOMAIN Files[p] :
                     IsPrefix(onDisk[p][i].AuditCmd, Files[p][i].AuditCmd)
           /\ saveResult = "" => SameHistories(onDisk, Files)

\* C5: after a successful save, loading the written file gives for every
\* path and match index a history of the same length with the same
\* outcome, comment and timestamp in each position
C5_RoundTrip ==
    saveResult = ""
    => /\ ValidDocument(disk)
       /\ SameHistories(UnmarshalFiles(disk), Files)

\* a saved store with a loaded entry, an entry with an escaped comment and
\* a sub-second timestamp, and an entry without comment
C5_Witness ==
    /\ saveResult = ""
    /\ Len(Files[PathAB][1].AuditCmd) = 2
    /\ Files[PathAB][1].AuditCmd[2].Assessment = <<"a", "<", "b">>
    /\ Files[PathAB][1].AuditCmd[2].Timestamp.nsec = 7
    /\ Len(Files[PathR][2].AuditCmd) = 1
    /\ Files[PathR][2].AuditCmd[1].Assessment = EmptyStr

----------------------------------------------------------------------------
(* Properties of the export *)

\* C6: at most one export goroutine is between the start of
\* performCSVExport and the return of its deferred calls, and the records
\* of the CSV file were all written by one run
C6_OneExportAtATime ==
    /\ Cardinality({t \in DOMAIN exports : Running(t)}) <= 1
    /\ \A i, j \in DOMAIN csvFile : csvFile[i].by = csvFile[j].by

\* the loop over the paths has ended without an export error
LoopFinished(e) == e.pc \in {"flush", "close", "done"} /\ e.err = ""

\* no match of the path is classified file or snippet
Unmatched(filePath) ==
    \A j \in DOMAIN Files[filePath] :
        Files[filePath][j].ID \notin {"file", "snippet"}

\* C7: an export whose loop has ended has handed the writer, after the
\* header, exactly one record for each path of the store and no other
\* record; the record of a path with an empty match list or without a
\* match classified file or snippet has match type no-match and status
\* Pending; and when the run has returned with its buffer flushed, those
\* records are the contents of the CSV file
C7_OneRowPerPath ==
    \A t \in DOMAIN exports :
        LET e == exports[t]
            data == Tail(e.rows)
        IN  LoopFinished(e)
            => /\ Len(data) = Cardinality(DOMAIN Files)
               /\ \A i \in DOMAIN data : data[i][1] \in DOMAIN Files
               /\ \A q \in DOMAIN Files :
                    Cardinality({i \in DOMAIN data : data[i][1] = q}) = 1
               /\ \A i \in DOMAIN data :
                    Unmatched(data[i][1])
                    => /\ data[i][2] = Str("no-match")
                       /\ data[i][5] = Str("Pending")
               /\ (e.pc = "done" /\ ~e.lost)
                  => [i \in DOMAIN csvFile |-> csvFile[i].cells] = e.rows

\* a finished export of a store with an empty match list and a match list
\* without valid match: header and two no-match records in the file
C7_Witness ==
    /\ Len(exports) = 1
    /\ exports[1].pc = "done"
    /\ exports[1].err = ""
    /\ ~exports[1].lost
    /\ Files[PathR] = <<>>
    /\ Files[PathAB][1].ID = "none"
    /\ Len(csvFile) = 3
    /\ \A i \in 2..3 : csvFile[i].cells[2] = Str("no-match")

CommaCount(s) == Cardinality({i \in DOMAIN s : s[i] = ","})

\* the largest number of comma-separated line ranges of a snippet match of
\* the store, 1 when there is none
ExpectedColumns ==
    LET counts ==
          {CommaCount(Files[q][j].OSSLines.val) + 1 :
             <<q, j>> \in {<<a, b>> \in UNION {{a} \X DOMAIN Files[a] :
                                                 a \in DOMAIN Files} :
                             /\ Files[a][b].ID = "snippet"
                             /\ Files[a][b].OSSLines.kind = "string"
                             /\ Files[a][b].OSSLines.val # <<>>
                             /\ Files[a][b].OSSLines.val # <<"all">>}}
            \cup {1}
    IN  CHOOSE n \in counts : \A m \in counts : m <= n

\* C8: the header and every record an export hands to the writer, and
\* every record of the CSV file, have seven cells followed by as many
\* deep-link cells as the largest number of comma-separated line ranges of
\* a snippet match of the store (1 at least); the number is fixed with the
\* header; a header cell reads Deeplink and a record's cell is a link or
\* empty
C8_DeeplinkColumns ==
    /\ \A t \in DOMAIN exports :
         LET e == exports[t]
         IN  /\ e.rows # <<>> => e.maxRanges = ExpectedColumns
             /\ \A i \in DOMAIN e.rows :
                  /\ Len(e.rows[i]) = 7 + ExpectedColumns
                  /\ \A c \in 8..Len(e.rows[i]) :
                       IF i = 1 THEN e.rows[i][c][1] = "Deeplink"
                       ELSE \/ e.rows[i][c] = EmptyStr
                            \/ e.rows[i][c][1] = "https://github.com"
    /\ \A i \in DOMAIN csvFile : Len(csvFile[i].cells) = 7 + ExpectedColumns

\* a finished export with three deep-link columns: a record with one link
\* and two empty cells, and a record with three empty cells
C8_Witness ==
    /\ Len(exports) = 1
    /\ exports[1].pc = "done"
    /\ exports[1].maxRanges = 3
    /\ Len(csvFile) = 3
    /\ \E i \in 2..3 : /\ csvFile[i].cells[8] # EmptyStr
                       /\ csvFile[i].cells[9] = EmptyStr
                       /\ csvFile[i].cells[10] = EmptyStr
                       /\ Len(csvFile[i].cells) = 10
    /\ \E i \in 2..3 : /\ \A c \in 8..10 : csvFile[i].cells[c] = EmptyStr
                       /\ Len(csvFile[i].cells) = 10
    /\ csvFile[1].cells[10] = <<"Deeplink", " ", "3">>

\* the base URLs of the deep links of a/b.go: the pinned identifier gives
\* revision v1, the identifier without revision a default branch
ExpectedBases(purls) ==
    IF purls = <<PurlPinned>>
    THEN {<<"https://github.com", "/", "acme", "/", "lib", "/", "blob", "/",
            "v1", "/", "src", "/", "b.go">>}
    ELSE IF purls = <<PurlNpm, PurlUnpinned>>
    THEN {<<"https://github.com", "/", "acme", "/", "lib", "/", "blob", "/",
            b, "/", "src", "/", "b.go">> : b \in {"main", "master"}}
    ELSE {}

\* the anchors of the concrete line ranges of the inputs, range by range
ExpectedAnchors(val) ==
    IF val = <<"10", "-", "12", ",", "40">>
    THEN <<(<<"#L", "10", "-L", "12">>), (<<"#L", "40">>)>>
    ELSE IF val = <<"7">>
    THEN <<(<<"#L", "7">>)>>
    ELSE IF val = <<" ", "3", " ", "-", "5", ",", " ", "9", " ">>
    THEN <<(<<"#L", "3", "-L", "5">>), (<<"#L", "9">>)>>
    ELSE <<>>

\* the deep-link cells of the records written for a/b.go
LinkCells == {SubSeq(exports[t].rows[i], 8, Len(exports[t].rows[i])) :
                <<t, i>> \in {<<u, j>> \in UNION {{u} \X DOMAIN exports[u].rows :
                                                    u \in DOMAIN exports} :
                                j > 1 /\ exports[u].rows[j][1] = PathAB}}

NamesRepository(purl) ==
    /\ Len(purl) >= 5
    /\ purl[1] = "pkg:github"
    /\ purl[2] = "/"
    /\ purl[3] \notin {"/", "@", "?"}
    /\ purl[4] = "/"
    /\ purl[5] \notin {"/", "@", "?"}

\* C11: a record has a link only if an identifier of its match names a
\* GitHub repository with owner and repository; when the match has no
\* identifier, only identifiers of other kinds, or GitHub identifiers
\* without owner or repository, every deep-link cell of its record is empty
\* and no default-branch request is made
C11_LinkOnlyForGitHub ==
    LET m == Files[PathAB][1]
    IN  /\ \A cells \in LinkCells :
             (\E c \in DOMAIN cells : cells[c] # EmptyStr)
             => \E i \in DOMAIN m.Purl : NamesRepository(m.Purl[i])
        /\ (\A i \in DOMAIN m.Purl : ~NamesRepository(m.Purl[i]))
           => /\ \A cells \in LinkCells :
                   \A c \in DOMAIN cells : cells[c] = EmptyStr
              /\ \A i \in DOMAIN lookups : lookups[i].path # PathAB

\* a finished export of a snippet match with two ranges whose only
\* identifier is a GitHub one without repository: two empty cells
C11_Witness ==
    /\ Files[PathAB][1].ID = "snippet"
    /\ Files[PathAB][1].Purl = <<PurlNoRepo>>
    /\ Files[PathAB][1].OSSLines = StrLines(<<"10", "-", "12", ",", "40">>)
    /\ Len(exports) = 1
    /\ exports[1].pc = "done"
    /\ exports[1].err = ""
    /\ Len(lookups) = 1
    /\ lookups[1].path = PathR
    /\ \E i \in DOMAIN csvFile :
         /\ csvFile[i].cells[1] = PathAB
         /\ csvFile[i].cells[2] = Str("snippet")
         /\ csvFile[i].cells[8] = EmptyStr
         /\ csvFile[i].cells[9] = EmptyStr

\* the records an export has handed the writer for paths whose match names
\* the repository acme/lib without a revision
UnpinnedRows(t) ==
    {i \in 2..Len(exports[t].rows) :
        LET q == exports[t].rows[i][1]
        IN  /\ HasValidMatch(Files[q])
            /\ Files[q][FirstValid(Files[q])].Purl
                 \in {<<PurlUnpinned>>, <<PurlNpm, PurlUnpinned>>}}

\* C12: in an export no repository is asked for twice, whatever the first
\* answer was and however many paths and ranges name it; every link built
\* from an identifier without revision carries the branch the first lookup
\* of the repository returned; and no lookup is made for a path whose
\* GitHub identifier carries a revision
C12_OneLookupPerRepository ==
    /\ \A i, j \in DOMAIN lookups :
         (lookups[i].by = lookups[j].by /\ lookups[i].key = lookups[j].key)
         => i = j
    /\ \A t \in DOMAIN exports : \A i \in UnpinnedRows(t) :
         \A c \in 8..Len(exports[t].rows[i]) :
            LET cell == exports[t].rows[i][c]
                first == {k \in DOMAIN lookups :
                            /\ lookups[k].key = <<"acme", "/", "lib">>
                            /\ \A l \in 1..(k - 1) :
                                 lookups[l].key # lookups[k].key}
            IN  cell # EmptyStr
                => /\ first # {}
                   /\ \A k \in first : SubSeq(cell, 9, 9) = lookups[k].got
    /\ \A i \in DOMAIN lookups :
         LET ms == Files[lookups[i].path]
         IN  /\ HasValidMatch(ms)
             /\ ms[FirstValid(ms)].Purl # <<PurlPinned>>
             /\ \E k \in DOMAIN ms[FirstValid(ms)].Purl :
                  ms[FirstValid(ms)].Purl[k] = PurlUnpinned

\* two paths naming acme/lib without revision, one with two line ranges:
\* one lookup, which failed, and three links on the fallback branch
C12_Witness ==
    /\ Files[PathAB][1].ID = "snippet"
    /\ Files[PathAB][1].OSSLines = StrLines(<<"10", "-", "12", ",", "40">>)
    /\ Files[PathAB][1].Purl = <<PurlNpm, PurlUnpinned>>
    /\ Len(Files[PathR]) = 1
    /\ Files[PathR][1].Purl = <<PurlUnpinned>>
    /\ Len(exports) = 1
    /\ exports[1].pc = "done"
    /\ exports[1].err = ""
    /\ Len(lookups) = 1
    /\ lookups[1].got = Str("master")
    /\ \E i, j \in DOMAIN csvFile :
         /\ csvFile[i].cells[1] = PathAB
         /\ SubSeq(csvFile[i].cells[8], 9, 9) = Str("master")
         /\ SubSeq(csvFile[i].cells[9], 9, 9) = Str("master")
         /\ csvFile[j].cells[1] = PathR
         /\ SubSeq(csvFile[j].cells[8], 9, 9) = Str("master")

\* a lookup that did not give a branch name: request error or timeout,
\* status other than 200, undecodable body, or an empty default_branch
LookupFailed(answer) == answer.kind # "ok" \/ answer.branch = EmptyStr

\* C13: after a default-branch lookup that failed in any of the four ways,
\* the record of the path it was made for has a link on the revision
\* master in its first deep-link cell; the export shows no export error
\* unless a write of the CSV writer failed; and when its loop has ended
\* without error every path of the store has its record
C13_LookupFailureFallsBack ==
    \A k \in DOMAIN lookups :
        LookupFailed(lookups[k].answer)
        => LET e == exports[lookups[k].by]
           IN  /\ \E i \in 2..Len(e.rows) :
                    /\ e.rows[i][1] = lookups[k].path
                    /\ e.rows[i][8] # EmptyStr
                    /\ SubSeq(e.rows[i][8], 1, 10)
                         = <<"https://github.com", "/", "acme", "/", "lib",
                             "/", "blob", "/", "master", "/">>
               /\ e.err \in {"", "write"}
               /\ e.err = "" => "export_error" \notin views
               /\ LoopFinished(e)
                  => \A q \in DOMAIN Files :
                        \E i \in 2..Len(e.rows) : e.rows[i][1] = q

\* a lookup answered with status 403 for the first path exported, the other
\* path written after it, the file complete and the dialog closed
C13_Witness ==
    /\ Len(exports) = 1
    /\ exports[1].pc = "done"
    /\ exports[1].err = ""
    /\ ~exports[1].lost
    /\ views = {}
    /\ Len(lookups) = 1
    /\ lookups[1].answer.kind = "status"
    /\ Len(csvFile) = 3
    /\ csvFile[2].cells[1] = lookups[1].path
    /\ SubSeq(csvFile[2].cells[8], 9, 9) = Str("master")
    /\ csvFile[3].cells[1] # lookups[1].path

\* C14: an export that has returned with records handed to the writer that
\* never reached the file (a failed write or flush) has an export error:
\* it recorded the cause, and its dialog was not closed as for a success
C14_FailedWriteSurfaced ==
    \A t \in DOMAIN exports :
        LET e == exports[t]
        IN  (/\ e.pc = "done"
             /\ \/ e.lost
                \/ [i \in DOMAIN csvFile |-> csvFile[i].cells] # e.rows)
            => e.err # ""

\* a step of an export: of its goroutine, of its start, or of the function
\* it queued
ExportStep ==
    \/ exports' # exports
    \/ csvFile' # csvFile
    \/ userEvents' # userEvents
    \/ lookups' # lookups
    \/ defaultBranchCache' # defaultBranchCache

\* the store changes by the decision the foreground is saving, and by
\* nothing else
StoreAsWithoutExport ==
    \/ Files' = Files
    \/ /\ currentView = "audit_input"
       /\ CurrentMatch # NoMatch
       /\ PendingDecision # EmptyStr
       /\ \E in \in SaveInputs(PendingDecision) :
            Files' = [Files EXCEPT ![CurrentMatch[1]][CurrentMatch[2]].AuditCmd =
                        Append(@, AuditDecision(PendingDecision,
                                                TrimSpace(in.buf), in.now))]

\* C15: no step of an export run, completing or aborting, changes the
\* store: the paths, the matches and the decision histories after the step
\* are those before it, or, when the step coincides with the foreground
\* saving a decision, those the save alone gives
C15_ExportLeavesStore == [][ExportStep => StoreAsWithoutExport]_vars

\* an export aborted by a failed write, and one decision recorded while it
\* ran: the store is the loaded one with that decision appended
C15_Witness ==
    /\ Len(exports) = 1
    /\ exports[1].pc = "done"
    /\ exports[1].err = "write"
    /\ "export_error" \in views
    /\ DOMAIN Files = DOMAIN AuditedStore
    /\ Files[PathR] = AuditedStore[PathR]
    /\ Len(Files[PathAB]) = 1
    /\ Len(Files[PathAB][1].AuditCmd) = 2
    /\ Files[PathAB][1].AuditCmd[1] = LoadedDecision
    /\ [Files[PathAB][1] EXCEPT !.AuditCmd = <<LoadedDecision>>]
         = AuditedStore[PathAB][1]

\* the status and the comment a record shows are those of the first k
\* decisions of the match's history, for some k
RowFromOneHistory(row) ==
    LET ms == Files[row[1]]
        m == ms[FirstValid(ms)]
    IN  HasValidMatch(ms)
        => \E k \in 0..Len(m.AuditCmd) :
              LET h == SubSeq(m.AuditCmd, 1, k)
              IN  /\ row[5] = ExportStatus([m EXCEPT !.AuditCmd = h])
                  /\ row[6] = IF k = 0 THEN EmptyStr ELSE h[k].Assessment

\* the records of every export show one state of the history each
RowsNeverMixed ==
    \A t \in DOMAIN exports : \A i \in 2..Len(exports[t].rows) :
        RowFromOneHistory(exports[t].rows[i])

\* an open decision dialog has the keyboard unless an error view is above it
DecisionNotBlocked ==
    ("audit_input" \in views
     /\ views \cap {"save_error", "audit_error", "export_error"} = {})
    => currentView = "audit_input"

\* C16: with decisions recorded in the foreground while an export runs, an
\* export whose loop has ended has one record per path; the status and the
\* comment of every record are those of one state of the match's history,
\* before or after a decision, never parts of both; and the dialog of a
\* decision under way keeps the keyboard, so that the decision can be saved
C16_DecisionDuringExport ==
    /\ \A t \in DOMAIN exports :
         LoopFinished(exports[t])
         => \A q \in DOMAIN Files :
               Cardinality({i \in 2..Len(exports[t].rows) :
                               exports[t].rows[i][1] = q}) = 1
    /\ RowsNeverMixed
    /\ DecisionNotBlocked

\* the export has been started
ExportStarted == Len(exports) >= 1

\* the goroutine of the export has not taken a step yet
ExportJustStarted == ExportStarted /\ exports[1].pc = "create"

\* performCSVExport and its deferred calls have returned
ExportReturned == ExportStarted /\ exports[1].pc = "done"

\* the loop has handed the writer a record for every path and the queued
\* function has closed the dialog
EndedWithRows ==
    /\ ExportStarted
    /\ LoopFinished(exports[1])
    /\ \A q \in DOMAIN Files :
         \E i \in 2..Len(exports[1].rows) : exports[1].rows[i][1] = q
    /\ userEvents = <<>>
    /\ "export_dialog" \notin views

\* the export has failed and its error is on the screen
EndedWithError ==
    /\ ExportStarted
    /\ exports[1].err # ""
    /\ "export_error" \in views

\* C17: a started export ends: its goroutine returns, and either every
\* path has had its record written and the export dialog is closed, or an
\* export error is shown; this for every dataset and every answer the
\* lookups get, a request that times out included
C17_ExportEnds ==
    /\ ExportStarted ~> ExportReturned
    /\ ExportJustStarted ~> (EndedWithRows \/ EndedWithError)

\* an export over two paths naming the same repository that has returned,
\* its only lookup ended as a request error, its dialog closed
C17_Witness ==
    /\ ExportStarted
    /\ exports[1].pc = "done"
    /\ EndedWithRows
    /\ Len(lookups) = 1
    /\ lookups[1].answer.kind = "error"
    /\ Files[PathR] # <<>>
    /\ Files[PathR][1].Purl = <<PurlUnpinned>>
    /\ Len(csvFile) = 3

----------------------------------------------------------------------------
\* C18: one cycleViewFilter step takes the filter from all to matched, from
\* matched to pending and from pending to all in directory view, and from
\* matched to pending and from pending to matched in ranking view; no step
\* of cycleViewFilter yields another value from these
C18_FilterCycle ==
    [][cycleViewFilter =>
         IF TreeViewType = "purls"
         THEN /\ ViewFilter = "matched" => ViewFilter' = "pending"
              /\ ViewFilter = "pending" => ViewFilter' = "matched"
         ELSE /\ ViewFilter = "all" => ViewFilter' = "matched"
              /\ ViewFilter = "matched" => ViewFilter' = "pending"
              /\ ViewFilter = "pending" => ViewFilter' = "all"]_vars

\* the ranking view under the pending filter after a decision on a/c.go: of
\* the two paths of the first entry the file pane lists the undecided one
C18_Witness ==
    /\ TreeViewType = "purls"
    /\ ViewFilter = "pending"
    /\ selectedNode.Path = PurlNode(1)
    /\ Len(Files[PathAC][2].AuditCmd) = 1
    /\ CurrentFileList = <<PathR>>

----------------------------------------------------------------------------
\* C19: with the program started in directory view under one of the three
\* filters, the filter is never "all" while the view is the ranking view;
\* a toggle into the ranking view turns "all" into "matched" and leaves
\* "matched" and "pending" as they are
C19_NoAllInRanking ==
    [][/\ TreeViewType' = "purls" => ViewFilter' # "all"
       /\ toggleTreeViewType /\ TreeViewType = "directories" =>
             ViewFilter' = IF ViewFilter = "all" THEN "matched"
                           ELSE ViewFilter]_vars

\* the ranking view under "matched" after a toggle: its first entry is
\* selected and both paths of that entry are listed, the store as loaded
C19_Witness ==
    /\ TreeViewType = "purls"
    /\ ViewFilter = "matched"
    /\ selectedNode.Path = PurlNode(1)
    /\ Len(CurrentFileList) = 2
    /\ Files = ViewStore

----------------------------------------------------------------------------
\* the store in which every path with a valid match keeps that match alone
FirstValidOnly(files) ==
    [p \in DOMAIN files |->
        IF FirstValid(files[p]) = 0 THEN files[p]
        ELSE <<files[p][FirstValid(files[p])]>>]

\* what the ranking build, the counts of both tree views and of the status
\* panel, the file list and the export make of a store is what they make
\* of the store without the other matches
StoreAgrees(files) ==
    LET only == FirstValidOnly(files)
        maxRanges == getMaxLineRanges(files)
    IN  /\ buildPURLRanking(files) = buildPURLRanking(only)
        /\ \A p \in DOMAIN files : RankingKey(files[p]) = RankingKey(only[p])
        /\ \A f \in FilterValues :
              /\ \A d \in TreeDirs(files) \cup {EmptyStr} :
                    /\ countFilesInDirectory(files, f, d)
                         = countFilesInDirectory(only, f, d)
                    /\ FilteredFiles(files, f, d) = FilteredFiles(only, f, d)
              /\ \A r \in buildPURLRanking(files) : \A i \in DOMAIN r :
                    PurlCount(files, f, r[i]) = PurlCount(only, f, r[i])
              /\ \A p \in DOMAIN files :
                    ShouldShow(f, files[p]) = ShouldShow(f, only[p])
        /\ displayDirectoryStatus(files) = displayDirectoryStatus(only)
        /\ \A p \in DOMAIN files :
              /\ StatusIcon(files[p]) = StatusIcon(only[p])
              /\ \A resp \in LookupResponses :
                    ExportRecord(files, p, maxRanges, <<>>, resp).record
                      = ExportRecord(only, p, maxRanges, <<>>, resp).record

\* the ranking is a ranking of the first valid matches of the store
RankingAgrees(files, ranking) ==
    ranking \in buildPURLRanking(FirstValidOnly(files))

\* the file pane and the match of the dialog are those of the first valid
\* matches
ViewAgrees ==
    LET only == FirstValidOnly(Files)
    IN  /\ CurrentMatch # NoMatch =>
              CurrentMatch[2] = FirstValid(Files[CurrentMatch[1]])
        /\ ViewMode = "list" =>
              /\ CurrentFileList =
                   IF TreeViewType = "purls"
                   THEN SelectSeq2(NodeFiles(selectedNode.Path, PURLRanking), only,
                                   ViewFilter, 1)
                   ELSE FilteredFiles(only, ViewFilter, selectedNode.Path)
              /\ \A i \in DOMAIN CurrentFileList :
                    FileList.Items[i] = <<StatusIcon(only[CurrentFileList[i]])>>
                                         \o CurrentFileList[i]

\* a step that changes the store appends one decision to the first valid
\* match of one path and leaves every other match as it was
DecisionOnFirstValid ==
    \E p \in DOMAIN Files :
        LET k == FirstValid(Files[p])
        IN  /\ k # 0
            /\ Len(Files'[p][k].AuditCmd) = Len(Files[p][k].AuditCmd) + 1
            /\ Files' = [Files EXCEPT ![p][k].AuditCmd = Files'[p][k].AuditCmd]

\* C20: for every path the ranking build, the counting of both tree views,
\* the file list, the audit action and the export go by the first match
\* classified file or snippet: the other matches of the path change neither
\* its ranking key, nor any count, nor its displayed or exported status, and
\* a decision is appended to that match and no other
C20_FirstValidEverywhere ==
    /\ StoreAgrees(Files)
    /\ RankingAgrees(Files, PURLRanking)
    /\ []ViewAgrees
    /\ [][/\ PURLRanking' = PURLRanking
          /\ Files' # Files => /\ DecisionOnFirstValid
                               /\ StoreAgrees(Files')
                               /\ RankingAgrees(Files', PURLRanking')]_vars

\* the ranking view after the decision to accept a/c.go, whose first valid
\* match stands between a match classified none and an accepted file match
\* with another identifier: the first entry is selected and lists a/c.go as
\* accepted, and the decision is in the history of the second match alone
C20_Witness ==
    /\ TreeViewType = "purls"
    /\ ViewMode = "list"
    /\ ViewFilter = "matched"
    /\ selectedNode.Path = PurlNode(1)
    /\ Len(CurrentFileList) = 2
    /\ \E i \in DOMAIN CurrentFileList :
          /\ CurrentFileList[i] = PathAC
          /\ FileList.Items[i] = <<"+ ">> \o PathAC
    /\ Len(Files[PathAC][2].AuditCmd) = 1
    /\ Files[PathAC][1] = ViewStore[PathAC][1]
    /\ Files[PathAC][3] = ViewStore[PathAC][3]

----------------------------------------------------------------------------
\* the strings a directory path is taken from: every prefix of a path of
\* the store, the empty one included
DirCandidates ==
    UNION {{SubSeq(p, 1, i) : i \in 0..Len(p)} : p \in DOMAIN Files}

\* p is a member of dir: no "/" in p for the directory "", else p starts
\* with dir followed by "/"
MemberOf(p, dir) ==
    IF dir = <<>> THEN \A i \in DOMAIN p : p[i] # "/"
    ELSE /\ Len(p) > Len(dir)
         /\ \A i \in DOMAIN dir : p[i] = dir[i]
         /\ p[Len(dir) + 1] = "/"

\* p passes the filter f: any path under all, one with a match classified
\* file or snippet under matched, one whose first such match has an empty
\* history under pending
Passes(f, p) ==
    LET valid == {i \in DOMAIN Files[p] : Files[p][i].ID \in {"file", "snippet"}}
    IN  CASE f = "all"     -> TRUE
          [] f = "matched" -> valid # {}
          [] f = "pending" ->
               /\ valid # {}
               /\ \A i \in valid : (\A j \in valid : i <= j)
                                      => Files[p][i].AuditCmd = <<>>

\* C21: for every directory path and every filter, countFilesInDirectory is
\* the number of paths of the store that are members of the directory and
\* pass the filter; and the count each directory row shows is that number
\* for the row's directory under the active filter
C21_CountIsMembersPassing ==
    /\ \A dir \in DirCandidates : \A f \in FilterValues :
          countFilesInDirectory(Files, f, dir) =
            Cardinality({p \in DOMAIN Files : MemberOf(p, dir) /\ Passes(f, p)})
    /\ TreeViewType = "directories" =>
          \A i \in DOMAIN displayLines :
             displayLines[i].Line =
               DirLine(displayLines[i].Indent,
                       displayLines[i].Node.Path \in expandedDirs,
                       displayLines[i].Node.Name,
                       Cardinality({p \in DOMAIN Files :
                                      /\ MemberOf(p, displayLines[i].Node.Path)
                                      /\ Passes(ViewFilter, p)}))

\* under pending the expanded directory a shows the count 1: of a/b.go
\* with only a match classified none, a/d/c.go undecided and a.d/c.go
\* undecided, only a/d/c.go is counted; under all it would be 2
C21_Witness ==
    /\ ViewFilter = "pending"
    /\ TreeViewType = "directories"
    /\ PathAB \in DOMAIN Files /\ ~HasValidMatch(Files[PathAB])
    /\ PathADC \in DOMAIN Files /\ Files[PathADC][1].AuditCmd = <<>>
    /\ PathDotDC \in DOMAIN Files
    /\ <<"a">> \in expandedDirs
    /\ \E i \in DOMAIN displayLines :
          /\ displayLines[i].Node.Path = <<"a">>
          /\ displayLines[i].Line = <<"[-] ", "a", " (", "1", ")">>
    /\ countFilesInDirectory(Files, "all", <<"a">>) = 2

----------------------------------------------------------------------------
\* the positions of the nodes buildFileTree made for directories of paths,
\* the "." and "All Files" nodes left out
MadeForPaths ==
    {k \in DOMAIN FileTree.nodes :
        FileTree.nodes[k].Name \notin {Str("."), Str("All Files")}}

\* p lies under dir at any depth and has a match classified file or snippet
NestedValid(f, dir) ==
    {p \in DOMAIN Files : MemberOf(p, dir) /\ Passes("matched", p) /\ Passes(f, p)}

\* p lies directly in dir: nothing but the file name follows dir and "/"
DirectlyIn(p, dir) ==
    MemberOf(p, dir) /\ \A i \in (Len(dir) + 2)..Len(p) : p[i] # "/"

\* the sum of the counts of the nodes at the positions ks[i..] under f
RECURSIVE SumOfCounts(_, _, _)
SumOfCounts(ks, f, i) ==
    IF i > Len(ks) THEN 0
    ELSE countFilesInDirectory(Files, f, FileTree.nodes[ks[i]].Path)
         + SumOfCounts(ks, f, i + 1)

\* the count of node k under f is the number of paths with a valid match
\* nested under it that pass f, and is the number of those lying directly
\* in it plus the counts of its child nodes
CountIsNestedValid(k, f) ==
    LET dir == FileTree.nodes[k].Path
        count == countFilesInDirectory(Files, f, dir)
    IN  /\ count = Cardinality(NestedValid(f, dir))
        /\ count = Cardinality({p \in NestedValid(f, dir) : DirectlyIn(p, dir)})
                   + SumOfCounts(ChildrenOf(FileTree, k), f, 1)

\* C22 as stated: for every directory node and every filter, all included,
\* the count is the number of valid-match paths nested under the node that
\* pass the filter, and the direct ones plus the counts of the child nodes
C22_CountIsNestedValidAnyFilter ==
    \A k \in MadeForPaths : \A f \in FilterValues : CountIsNestedValid(k, f)

\* C22: under matched and pending the count of every directory node made
\* for a path is the number of valid-match paths nested at any depth under
\* it that pass the filter, and equals those lying directly in it plus the
\* counts of its child nodes; under all the count is the number of all
\* paths nested under the node, those without a valid match included
C22_CountIsNested ==
    \A k \in MadeForPaths :
       /\ CountIsNestedValid(k, "matched")
       /\ CountIsNestedValid(k, "pending")
       /\ countFilesInDirectory(Files, "all", FileTree.nodes[k].Path) =
            Cardinality({p \in DOMAIN Files :
                           MemberOf(p, FileTree.nodes[k].Path)})

\* the directory a expanded under matched, with a/b.go undecided in it and
\* a/d/c.go decided below it: the row of a shows 2, the row of d shows 1
C22_Witness ==
    /\ ViewFilter = "matched"
    /\ TreeViewType = "directories"
    /\ <<"a">> \in expandedDirs
    /\ PathAB \in DOMAIN Files /\ FirstValid(Files[PathAB]) = 1
    /\ PathADC \in DOMAIN Files /\ FirstValid(Files[PathADC]) = 2
    /\ \E i \in DOMAIN displayLines :
          /\ i < Len(displayLines)
          /\ displayLines[i].Line = <<"[-] ", "a", " (", "2", ")">>
          /\ displayLines[i + 1].Line = <<"  ", "[+] ", "d", " (", "1", ")">>

----------------------------------------------------------------------------
\* the store with every history cut down to its last entry
LastOnly(files) ==
    [p \in DOMAIN files |->
        [i \in DOMAIN files[p] |->
            [files[p][i] EXCEPT !.AuditCmd =
                IF Len(@) = 0 THEN <<>> ELSE <<@[Len(@)]>>]]]

\* the status and comment columns of the record the export writes for p
CsvStatus(files, p) ==
    LET row == ExportRecord(files, p, 1, <<>>,
                            [kind |-> "error", branch |-> EmptyStr]).record
    IN  <<row[5], row[6]>>

\* the counts of the status panel for the store that holds p alone
PanelOf(files, p) == displayDirectoryStatus([q \in {p} |-> files[q]])

\* the status the three places give the first valid match of p: Accepted
\* when its last outcome is identified, Ignored when it is ignored, Pending
\* when its history is empty
StatusByLastEntry(p) ==
    LET m == Files[p][FirstValid(Files[p])]
        last == m.AuditCmd[Len(m.AuditCmd)]
    IN  /\ m.AuditCmd = <<>> =>
              /\ StatusIcon(Files[p]) = "? "
              /\ CsvStatus(Files, p) = <<Str("Pending"), EmptyStr>>
              /\ PanelOf(Files, p).pendingFiles = 1
              /\ displayFileStatus(m).auditStatus = Str("PENDING")
        /\ m.AuditCmd # <<>> /\ last.Decision = Str("identified") =>
              /\ StatusIcon(Files[p]) = "+ "
              /\ CsvStatus(Files, p) = <<Str("Accepted"), last.Assessment>>
              /\ PanelOf(Files, p).identifiedFiles = 1
              /\ displayFileStatus(m).auditStatus = Str("IDENTIFIED")
        /\ m.AuditCmd # <<>> /\ last.Decision = Str("ignored") =>
              /\ StatusIcon(Files[p]) = "x "
              /\ CsvStatus(Files, p) = <<Str("Ignored"), last.Assessment>>
              /\ PanelOf(Files, p).ignoredFiles = 1
              /\ displayFileStatus(m).auditStatus = Str("IGNORED")

\* C23: the status of a match in the file list, the status panel and the
\* export is Accepted, Ignored or Pending as its last history entry is
\* identified, ignored or missing; and icon, exported status and comment,
\* panel counts, panel status and directory counts are those of the store
\* whose histories are cut down to their last entry, as are the lines the
\* file pane shows
C23_StatusFromLastEntry ==
    LET only == LastOnly(Files)
    IN  /\ \A p \in DOMAIN Files :
              /\ FirstValid(Files[p]) # 0 => StatusByLastEntry(p)
              /\ StatusIcon(Files[p]) = StatusIcon(only[p])
              /\ CsvStatus(Files, p) = CsvStatus(only, p)
              /\ \A i \in DOMAIN Files[p] :
                    displayFileStatus(Files[p][i]) = displayFileStatus(only[p][i])
        /\ displayDirectoryStatus(Files) = displayDirectoryStatus(only)
        /\ \A dir \in DirCandidates : \A f \in FilterValues :
              countFilesInDirectory(Files, f, dir)
                = countFilesInDirectory(only, f, dir)
        /\ ViewMode = "list" =>
              \A i \in DOMAIN CurrentFileList :
                 FileList.Items[i] = <<StatusIcon(only[CurrentFileList[i]])>>
                                      \o CurrentFileList[i]

\* a/b.go, loaded as ignored, has been accepted with a comment: its history
\* has two entries with different outcomes, the file pane shows it as
\* accepted and the export would write Accepted with the trimmed comment
C23_Witness ==
    /\ Len(Files[PathAB][1].AuditCmd) = 2
    /\ Files[PathAB][1].AuditCmd[1].Decision = Str("ignored")
    /\ Files[PathAB][1].AuditCmd[2].Decision = Str("identified")
    /\ ViewMode = "list"
    /\ \E i \in DOMAIN CurrentFileList :
          /\ CurrentFileList[i] = PathAB
          /\ FileList.Items[i] = <<"+ ">> \o PathAB
    /\ CsvStatus(Files, PathAB) = <<Str("Accepted"), <<"a", "<", "b">>>>

----------------------------------------------------------------------------
\* a step that records the outcome identified on path p, whose first valid
\* match had no decision, and writes the result file without error
AcceptsUndecided(p) ==
    /\ RecordDecision
    /\ PendingDecision = Str("identified")
    /\ CurrentMatch = <<p, FirstValid(Files[p])>>
    /\ Files[p][CurrentMatch[2]].AuditCmd = <<>>
    /\ Files' # Files
    /\ saveResult' = ""

\* C24: a successful decision identified on a path whose first valid match
\* was undecided takes one off the pending count of every directory the
\* path is a member of, leaves the pending count of every other directory
\* and every matched count as they were, and the record an export then
\* writes for the path has the status Accepted
C24_AcceptTakesOneOffPending ==
    [][\A p \in DOMAIN Files :
         AcceptsUndecided(p) =>
           /\ \A dir \in DirCandidates :
                 /\ countFilesInDirectory(Files', "pending", dir) =
                      countFilesInDirectory(Files, "pending", dir)
                        - (IF MemberOf(p, dir) THEN 1 ELSE 0)
                 /\ countFilesInDirectory(Files', "matched", dir) =
                      countFilesInDirectory(Files, "matched", dir)
           /\ CsvStatus(Files', p)[1] = Str("Accepted")]_vars

\* a/b.go has been accepted and saved: of the two paths of the directory a
\* one is left pending, both are still counted under matched, and the
\* export would report a/b.go as Accepted
C24_Witness ==
    /\ Len(Files[PathAB][1].AuditCmd) = 1
    /\ Files[PathAB][1].AuditCmd[1].Decision = Str("identified")
    /\ saveResult = ""
    /\ countFilesInDirectory(Files, "pending", <<"a">>) = 1
    /\ countFilesInDirectory(Files, "matched", <<"a">>) = 2
    /\ countFilesInDirectory(ViewStore, "pending", <<"a">>) = 2
    /\ CsvStatus(Files, PathAB)[1] = Str("Accepted")

----------------------------------------------------------------------------
\* the positions of the nodes above node k of the tree, the root left out
RECURSIVE AncestorsOf(_)
AncestorsOf(k) ==
    IF FileTree.nodes[k].Parent = 0 THEN {}
    ELSE {FileTree.nodes[k].Parent} \cup AncestorsOf(FileTree.nodes[k].Parent)

\* node k of the tree is the node of a row
HasTreeRow(k) ==
    \E i \in DOMAIN displayLines :
       displayLines[i].Node = NodeOf(FileTree.nodes[k].Name,
                                     FileTree.nodes[k].Path)

\* every directory above node k is expanded
AncestorsExpanded(k) ==
    \A a \in AncestorsOf(k) : FileTree.nodes[a].Path \in expandedDirs

\* the rule of directory visibility for the nodes at the positions ks
VisibilityRule(ks) ==
    TreeViewType = "directories" =>
      \A k \in ks :
         LET count == countFilesInDirectory(Files, ViewFilter,
                                            FileTree.nodes[k].Path)
         IN  /\ ViewFilter \in {"matched", "pending"} /\ count = 0 =>
                   /\ ~HasTreeRow(k)
                   /\ \A d \in DOMAIN FileTree.nodes :
                         k \in AncestorsOf(d) => ~HasTreeRow(d)
             /\ count # 0 /\ AncestorsExpanded(k) => HasTreeRow(k)
             /\ ViewFilter = "all" /\ AncestorsExpanded(k) => HasTreeRow(k)

\* C25: in directory view, under matched and pending a directory node with
\* a zero count has no row and neither has any node below it; a node with
\* a non-zero count whose ancestors are all expanded has a row; under all
\* every node of the tree whose ancestors are expanded has a row
C25_DirectoryVisibility == VisibilityRule(DOMAIN FileTree.nodes)

\* the rule for the nodes that are not named Root and have no ancestor of
\* that name
VisibilityButRootName ==
    VisibilityRule({k \in DOMAIN FileTree.nodes :
                      \A a \in AncestorsOf(k) \cup {k} :
                         FileTree.nodes[a].Name # Str("Root")})

----------------------------------------------------------------------------
\* the paths of a ranking entry whose first valid match passes the active
\* filter
EntryPassing(entry) ==
    {p \in {entry.Files[j] : j \in DOMAIN entry.Files} :
        p \in DOMAIN Files /\ Passes("matched", p) /\ Passes(ViewFilter, p)}

\* the rows of the i-th entry of the ranking
RowsOfEntry(i) ==
    {r \in DOMAIN displayLines : displayLines[r].Node.Path = PurlNode(i)}

\* C26: in ranking view an entry of the ranking has a row if and only if
\* the number of its paths whose first valid match passes the active filter
\* is not zero; it has one row at most, the rows follow the order of the
\* ranking, every row is the row of an entry, and the row shows the
\* identifier of the entry with that number
C26_RankingRows ==
    TreeViewType = "purls" =>
      /\ \A i \in DOMAIN PURLRanking :
            LET n == Cardinality(EntryPassing(PURLRanking[i]))
            IN  /\ RowsOfEntry(i) # {} <=> n # 0
                /\ Cardinality(RowsOfEntry(i)) <= 1
                /\ \A r \in RowsOfEntry(i) :
                      displayLines[r].Line =
                        <<"    ">> \o PURLRanking[i].PURL
                        \o <<" (", Itoa(n), ")">>
      /\ \A r \in DOMAIN displayLines :
            \E i \in DOMAIN PURLRanking : r \in RowsOfEntry(i)
      /\ \A i, j \in DOMAIN PURLRanking :
            \A r \in RowsOfEntry(i) : \A q \in RowsOfEntry(j) :
               i < j => r < q

\* the ranking view under pending: the first entry of the ranking has two
\* paths, both decided, and no row; the only row is that of the second
\* entry and shows its one path, which is undecided
C26_Witness ==
    /\ TreeViewType = "purls"
    /\ ViewFilter = "pending"
    /\ Len(PURLRanking) = 2
    /\ PURLRanking[1].Count = 2
    /\ \A j \in 1..2 :
          LET p == PURLRanking[1].Files[j]
          IN  Files[p][FirstValid(Files[p])].AuditCmd # <<>>
    /\ PURLRanking[2].Count = 1
    /\ Len(displayLines) = 1
    /\ displayLines[1].Node.Path = PurlNode(2)
    /\ displayLines[1].Line = <<"    ">> \o PurlNpm \o <<" (", "1", ")">>

----------------------------------------------------------------------------
\* the places <<entry, position>> of the ranking where path p stands
PlacesOf(p) ==
    {<<i, j>> \in UNION {{<<i, j>> : j \in DOMAIN PURLRanking[i].Files} :
                            i \in DOMAIN PURLRanking} :
        PURLRanking[i].Files[j] = p}

\* C27: a path whose first match classified file or snippet has an
\* identifier stands in the ranking once, in the entry of the first
\* identifier of that match; a path without such a match, or whose first
\* such match has no identifier, stands in no entry, whatever its other
\* matches are; the Count of an entry is the length of its list of paths,
\* no entry is empty, no two entries have the same identifier and every
\* listed path is a path of the store
C27_RankingGroups ==
    /\ \A p \in DOMAIN Files :
          LET valid == {i \in DOMAIN Files[p] :
                          Files[p][i].ID \in {"file", "snippet"}}
              first == CHOOSE i \in valid : \A j \in valid : i <= j
          IN  IF valid # {} /\ Files[p][first].Purl # <<>>
              THEN /\ Cardinality(PlacesOf(p)) = 1
                   /\ \A pl \in PlacesOf(p) :
                         PURLRanking[pl[1]].PURL = Files[p][first].Purl[1]
              ELSE PlacesOf(p) = {}
    /\ \A i \in DOMAIN PURLRanking :
          /\ PURLRanking[i].Count = Len(PURLRanking[i].Files)
          /\ PURLRanking[i].Count > 0
          /\ \A j \in DOMAIN PURLRanking[i].Files :
                PURLRanking[i].Files[j] \in DOMAIN Files
          /\ \A k \in DOMAIN PURLRanking :
                PURLRanking[k].PURL = PURLRanking[i].PURL => k = i

\* the ranking view of a store where r.go has only a match classified none
\* that names an identifier, the file match of a/b.go names none while its
\* snippet match does, a/d/c.go names two identifiers and Root/b.go one:
\* the ranking has the entry of the first identifier of a/d/c.go and the
\* entry of Root/b.go, one path each, and both have a row
C27_Witness ==
    /\ DOMAIN Files = {PathR, PathAB, PathADC, PathRootB}
    /\ Files[PathR] = TreeMatches("none")
    /\ Files[PathAB] = TreeMatches("unnamed")
    /\ Files[PathADC] = TreeMatches("pendingGithub")
    /\ PURLRanking = <<[PURL |-> PurlUnpinned, Files |-> <<PathADC>>,
                        Count |-> 1],
                      [PURL |-> PurlNpm, Files |-> <<PathRootB>>,
                        Count |-> 1]>>
    /\ TreeViewType = "purls"
    /\ Len(displayLines) = 2

----------------------------------------------------------------------------
\* the sequence of <<identifier, count>> of a ranking
PairsOf(ranking) ==
    [i \in DOMAIN ranking |-> <<ranking[i].PURL, ranking[i].Count>>]

\* C28: an entry of the ranking has a greater count than every later one,
\* or the same count and a lesser identifier; and every ranking the
\* iteration orders of the maps can give for the store has the same
\* sequence of identifiers and counts
C28_RankingOrder ==
    /\ \A i, j \in DOMAIN PURLRanking :
          i < j =>
            \/ PURLRanking[i].Count > PURLRanking[j].Count
            \/ /\ PURLRanking[i].Count = PURLRanking[j].Count
               /\ StrLess(PURLRanking[i].PURL, PURLRanking[j].PURL)
    /\ \A r \in buildPURLRanking(Files) : PairsOf(r) = PairsOf(PURLRanking)

\* the ranking view of a store whose maps can be iterated in more than one
\* order: the entry of pkg:npm with two paths stands before the entry of
\* pkg:github with one, against the order of the identifiers
C28_Witness ==
    /\ TreeViewType = "purls"
    /\ Cardinality(buildPURLRanking(Files)) > 1
    /\ PairsOf(PURLRanking) = <<<<PurlNpm, 2>>, <<PurlUnpinned, 1>>>>
    /\ Len(displayLines) = 2
    /\ displayLines[1].Node.Name = PurlNpm

\* two entries with the same count stand in the order of their identifiers
TieInRanking ==
    /\ TreeViewType = "purls"
    /\ PairsOf(PURLRanking) = <<<<PurlUnpinned, 2>>, <<PurlNpm, 2>>>>

----------------------------------------------------------------------------
\* the paths of the store that have a match classified file or snippet
ValidPaths == {p \in DOMAIN Files : Passes("matched", p)}

\* C29: for every path with a valid match and every "/" in it, the tree
\* has exactly one node whose path is the part of the path before that
\* "/"; two nodes with the same parent have different names; no node has
\* the path of a file; and every node but the "." and "All Files" nodes
\* (path "") has a path that, followed by "/", starts a path with a valid
\* match
C29_TreeNodes ==
    /\ \A p \in ValidPaths : \A i \in DOMAIN p :
          p[i] = "/" =>
            Cardinality({k \in DOMAIN FileTree.nodes :
                           FileTree.nodes[k].Path = SubSeq(p, 1, i - 1)}) = 1
    /\ \A k, l \in DOMAIN FileTree.nodes :
          /\ k # l
          /\ FileTree.nodes[k].Parent = FileTree.nodes[l].Parent
          => FileTree.nodes[k].Name # FileTree.nodes[l].Name
    /\ \A k \in DOMAIN FileTree.nodes :
          /\ FileTree.nodes[k].Path \notin DOMAIN Files
          /\ FileTree.nodes[k].Path # <<>> =>
                \E p \in ValidPaths : MemberOf(p, FileTree.nodes[k].Path)

\* the tree of a store where a.d/c.go and a/d/c.go have a valid match and
\* a/b.go has none: the nodes a.d, a and d below a, in the order they were
\* made, each with a row once a is expanded
C29_Witness ==
    /\ DOMAIN Files = {PathAB, PathADC, PathDotDC}
    /\ ~HasValidMatch(Files[PathAB])
    /\ FileTree.nodes = <<TreeNode(<<"a", ".", "d">>, <<"a", ".", "d">>, 0),
                          TreeNode(<<"a">>, <<"a">>, 0),
                          TreeNode(<<"d">>, <<"a", "/", "d">>, 2)>>
    /\ <<"a">> \in expandedDirs
    /\ TreeViewType = "directories"
    /\ Len(displayLines) = 3

----------------------------------------------------------------------------
\* the positions of the "." nodes of the tree
DotNodes ==
    {k \in DOMAIN FileTree.nodes : FileTree.nodes[k].Name = Str(".")
                                   /\ FileTree.nodes[k].Path = EmptyStr}

\* a "." node, when the tree has one, is the only one, a child of the root
\* and the first of root.Children
DotIsFirstChild ==
    \A k \in DotNodes : /\ DotNodes = {k}
                         /\ FileTree.nodes[k].Parent = 0
                         /\ FileTree.Children[1] = k

\* C30: the tree has the "." node if and only if some path with a valid
\* match contains no "/"; the node then has the path "" and is the first
\* child of the root
C30_DotIffValidRootPath ==
    /\ DotNodes # {} <=> \E p \in ValidPaths : \A i \in DOMAIN p : p[i] # "/"
    /\ DotIsFirstChild

\* the tree has the "." node if and only if some path of the store, with a
\* valid match or without, contains no "/"
DotIffAnyRootPath ==
    /\ DotNodes # {} <=> \E p \in DOMAIN Files : \A i \in DOMAIN p : p[i] # "/"
    /\ DotIsFirstChild

----------------------------------------------------------------------------
\* the "All Files" nodes of the tree
AllFilesNodes ==
    {k \in DOMAIN FileTree.nodes : FileTree.nodes[k].Name = Str("All Files")}

\* C31: the tree has an "All Files" node if and only if some path has a
\* valid match and no directory node was made for a path with a valid match
\* (none of them contains a "/"); there is never more than one, it is a
\* child of the root with the path "", and no tree has both an "All Files"
\* node and a directory node made for a path
C31_AllFilesIffNoDirectory ==
    /\ AllFilesNodes # {} <=>
          /\ ValidPaths # {}
          /\ \A p \in ValidPaths : \A i \in DOMAIN p : p[i] # "/"
    /\ AllFilesNodes # {} <=> (ValidPaths # {} /\ MadeForPaths = {})
    /\ Cardinality(AllFilesNodes) <= 1
    /\ \A k \in AllFilesNodes :
          /\ FileTree.nodes[k].Path = EmptyStr
          /\ FileTree.nodes[k].Parent = 0
          /\ \E i \in DOMAIN FileTree.Children : FileTree.Children[i] = k

\* the only path with a valid match is r.go, next to a/b.go without one: the
\* tree is the "." node followed by the "All Files" node
C31_Witness ==
    /\ ValidPaths = {PathR}
    /\ PathAB \in DOMAIN Files
    /\ Cardinality(AllFilesNodes) = 1
    /\ Len(FileTree.Children) = 2
    /\ FileTree.nodes[FileTree.Children[1]].Name = Str(".")
    /\ FileTree.nodes[FileTree.Children[2]].Name = Str("All Files")
    /\ TreeViewType = "directories"
    /\ Len(displayLines) > 0

----------------------------------------------------------------------------
\* the position in the tree of the node of row i (a node made for a path is
\* known by its path, the "." and "All Files" nodes by their names)
NodeOfRow(i) ==
    CHOOSE k \in DOMAIN FileTree.nodes :
       displayLines[i].Node = NodeOf(FileTree.nodes[k].Name,
                                     FileTree.nodes[k].Path)

\* C32: in directory view, of two rows whose nodes are children of the same
\* node, the top-level directories under the root included, the upper row
\* has the name that is lexicographically smaller
C32_SiblingRowsSorted ==
    TreeViewType = "directories" =>
      \A i, j \in DOMAIN displayLines :
         /\ i < j
         /\ FileTree.nodes[NodeOfRow(i)].Parent =
              FileTree.nodes[NodeOfRow(j)].Parent
         => StrLess(displayLines[i].Node.Name, displayLines[j].Node.Name)

----------------------------------------------------------------------------
\* the file selected in the file pane, when there is one
SelectedFile == CurrentFileList[SelectedFileIndex + 1]

\* C33: ESC on the input of an accept or ignore dialog changes no decision
\* history, does not write the result file, removes the dialog and clears the
\* pending outcome and the current match; a dialog opened afterwards, with no
\* current match left, takes its outcome from the key pressed and its match
\* from the file then selected, and a record made by ENTER carries exactly
\* that outcome
C33_CancelRecordsNothing ==
    [][/\ closeAuditDialog =>
            /\ Files' = Files
            /\ disk' = disk
            /\ saveResult' = saveResult
            /\ PendingDecision' = EmptyStr
            /\ CurrentMatch' = NoMatch
            /\ views' \cap AuditViews = {}
       /\ \A d \in {Str("identified"), Str("ignored")} :
            /\ showAuditDialog(d)
            /\ CurrentMatch = NoMatch
            /\ "audit_input" \in views'
            => /\ PendingDecision' = d
               /\ SelectedFile \in DOMAIN Files
               /\ CurrentMatch' = <<SelectedFile, FirstValid(Files[SelectedFile])>>
               /\ Files' = Files
               /\ disk' = disk
       /\ RecordDecision =>
            LET h == Files'[CurrentMatch[1]][CurrentMatch[2]].AuditCmd
            IN  h[Len(h)].Decision = PendingDecision]_vars

\* the content of r.go is shown and no current match is set, which only the
\* closing of a dialog brings about, while the store and the result file are
\* those that were loaded: the dialog was cancelled
C33_Witness ==
    /\ ViewMode = "content"
    /\ ActivePane = "files"
    /\ CurrentMatch = NoMatch
    /\ PendingDecision = EmptyStr
    /\ views = {}
    /\ SelectedFileIndex < Len(CurrentFileList)
    /\ SelectedFile = PathR
    /\ Files \in LedgerStores
    /\ disk = MarshalFiles(Files)
    /\ saveResult = "none"

----------------------------------------------------------------------------
\* u is a run of white space followed by https:// and anything
StartsWithHttps(u) ==
    \E k \in DOMAIN u : /\ u[k] = "https://"
                        /\ \A j \in 1..(k - 1) : u[j] \in WhiteSpace

\* the matches classified file or snippet whose URL is not of that form
InvalidURLMatches ==
    {<<p, i>> \in (DOMAIN Files) \X (1..2) :
        /\ i \in DOMAIN Files[p]
        /\ Files[p][i].ID \in {"file", "snippet"}
        /\ ~StartsWithHttps(Files[p][i].FileURL)}

\* C34: isGeneratedWithAPIKey returns true if and only if no match classified
\* file or snippet, on any path and at any place of its list, has a URL that
\* is empty after trimming or does not start with https:// (matches of other
\* classifications do not count); isValidFileURL is true exactly of the URLs
\* that are https:// and more after leading white space; both give what the
\* tables of their tests expect
C34_GeneratedWithAPIKey ==
    /\ generatedWithAPIKey # <<>> =>
          (generatedWithAPIKey[1] <=> InvalidURLMatches = {})
    /\ \A p \in DOMAIN Files : \A i \in DOMAIN Files[p] :
          isValidFileURL(Files[p][i].FileURL)
             <=> StartsWithHttps(Files[p][i].FileURL)
    /\ \A t \in TestIsValidFileURL : isValidFileURL(t.fileURL) = t.expected
    /\ \A t \in TestIsGeneratedWithAPIKey :
          isGeneratedWithAPIKey(t.files) = t.expected

\* the detection has answered false for a dataset whose only invalid URL is
\* that of the second match of r.go, behind a match with a valid URL, while
\* a/b.go has a match classified none with an empty URL
C34_Witness ==
    /\ generatedWithAPIKey = <<FALSE>>
    /\ InvalidURLMatches = {<<PathR, 2>>}
    /\ Files[PathR][1].ID = "file"
    /\ isValidFileURL(Files[PathR][1].FileURL)
    /\ PathAB \in DOMAIN Files
    /\ Files[PathAB][1].ID = "none"
    /\ Files[PathAB][1].FileURL = EmptyStr

----------------------------------------------------------------------------
\* the count a row shows: what stands between " (" and ")" at its end
ShownCount(r) == displayLines[r].Line[Len(displayLines[r].Line) - 1]

\* the filtered count of the node of row r, from the store as it is now
CountNow(r) ==
    IF TreeViewType = "purls"
    THEN LET i == CHOOSE i \in DOMAIN PURLRanking :
                     displayLines[r].Node.Path = PurlNode(i)
         IN  Cardinality(EntryPassing(PURLRanking[i]))
    ELSE Cardinality({p \in DOMAIN Files :
                         /\ MemberOf(p, displayLines[r].Node.Path)
                         /\ Passes(ViewFilter, p)})

\* C35: in every state where no write of the result file has failed,
\* whatever decisions, navigation steps and filter changes led to it, every
\* row of the tree pane shows the filtered count of its directory or ranking
\* entry computed from the store as it is now, and no row is left for a
\* directory or entry whose count is zero
C35_RowsNeverStale ==
    saveResult \in {"none", ""} =>
      \A r \in DOMAIN displayLines :
         /\ CountNow(r) # 0
         /\ ShownCount(r) = Itoa(CountNow(r))

----------------------------------------------------------------------------
\* the rows of the selected node
SelectedRows == {r \in DOMAIN displayLines : displayLines[r].Node = selectedNode}

\* the paths the count of the node of row r stands for, from the store as
\* it is now
CountedNow(r) ==
    IF TreeViewType = "purls"
    THEN LET i == CHOOSE i \in DOMAIN PURLRanking :
                     displayLines[r].Node.Path = PurlNode(i)
         IN  EntryPassing(PURLRanking[i])
    ELSE {p \in DOMAIN Files : /\ MemberOf(p, displayLines[r].Node.Path)
                               /\ Passes(ViewFilter, p)}

\* the paths listed in the file pane
Listed == {CurrentFileList[i] : i \in DOMAIN CurrentFileList}

\* C36: while the file pane shows a list and no write of the result file
\* has failed, the number of files it lists is the count shown on the row of
\* the selected directory or ranking entry (a row shows no count of zero),
\* no path is listed twice, and the listed paths are the paths that count
\* stands for
C36_ListedIsShownCount ==
    ViewMode = "list" /\ saveResult \in {"none", ""} =>
      \A r \in SelectedRows :
         /\ Len(CurrentFileList) # 0
         /\ ShownCount(r) = Itoa(Len(CurrentFileList))
         /\ Cardinality(Listed) = Len(CurrentFileList)
         /\ Listed = CountedNow(r)

\* the list of the file pane against the count computed from the store as
\* it is now, in place of the count the row shows
ListedIsCountedNow ==
    ViewMode = "list" =>
      \A r \in SelectedRows :
         /\ Len(CurrentFileList) = Cardinality(CountedNow(r))
         /\ Cardinality(Listed) = Len(CurrentFileList)
         /\ Listed = CountedNow(r)


\* C37: whenever at least one tree row is shown, the selected node is the
\* node of the highlighted row: TreeList.SelectedIndex is the index of a row
\* and the node of that row (its name and path) is the selected node, the
\* one whose files updateFileList lists
C37_SelectionIsHighlightedRow ==
    Len(displayLines) > 0 =>
        /\ TreeList.SelectedIndex + 1 \in DOMAIN displayLines
        /\ displayLines[TreeList.SelectedIndex + 1].Node = selectedNode


\* the rows of lines that show the node (the directory of that path, or the
\* ranking entry of that index)
RowsShowing(lines, node) == {i \in DOMAIN lines : lines[i].Node = node}

\* C38: every cycleViewFilter step keeps the selected node when one of the
\* rows made under the new filter shows it, in the directory view and in the
\* ranking view, and selects the node of the first row only when no row
\* shows it and there is a row
C38_FilterKeepsVisibleSelection ==
    [][cycleViewFilter =>
         IF RowsShowing(displayLines', selectedNode) # {}
         THEN selectedNode' = selectedNode
         ELSE Len(displayLines') > 0 => selectedNode' = displayLines'[1].Node
      ]_vars


----------------------------------------------------------------------------
(* The places that classify a path as pending, on loaded histories *)

\* the outcomes of a last entry read from the input file: the two the tool
\* writes, one in another case, one followed by a blank, and another word
LoadedOutcomes ==
    {Str("identified"), Str("ignored"), Str("Identified"),
     <<"identified", " ">>, Str("deferred")}

\* the histories read from the input file: none, one entry of each outcome,
\* and an accepted match whose last entry carries another word
StatusHistories ==
    {<<>>}
    \cup {<<AuditDecision(d, EmptyStr, Time(90, 0, FALSE))>> : d \in LoadedOutcomes}
    \cup {<<AuditDecision(Str("identified"), Str("ok"), Time(90, 0, FALSE)),
            AuditDecision(Str("deferred"), EmptyStr, Time(95, 0, FALSE))>>}

\* a root-level path and a path in a directory, each with one valid match
\* that carries one of the histories
StatusStores ==
    {(PathR :> <<FileMatch("file", <<"lib", "/", "r.go">>, <<PurlNpm>>,
                           <<Str("MIT")>>, NilLines, h1)>>)
     @@ (PathAB :> <<FileMatch("none", EmptyStr, <<>>, <<>>, NilLines, <<>>),
                     FileMatch("snippet", <<"src", "/", "b.go">>,
                               <<PurlUnpinned>>, <<Str("MIT")>>,
                               StrLines(<<"7">>), h2)>>) :
        h1 \in StatusHistories, h2 \in StatusHistories}

InitStatus == InitStore(StatusStores, FilterValues)

SpecStatus == InitStatus /\ [][NextTree]_vars

\* the directory that holds p: the path before its last "/"
ParentDir(p) == IF Len(p) > 2 THEN SubSeq(p, 1, Len(p) - 2) ELSE EmptyStr

\* the pending filter counts p in the row of its directory and lists it in
\* the file pane of that directory
PendingByFilter(p) ==
    /\ countFilesInDirectory([q \in {p} |-> Files[q]], "pending", ParentDir(p)) = 1
    /\ \E i \in DOMAIN FilteredFiles(Files, "pending", ParentDir(p)) :
          FilteredFiles(Files, "pending", ParentDir(p))[i] = p

\* C39: for every path with a valid match and whatever history was loaded
\* for it, the pending filter counts and lists the path exactly when the CSV
\* export gives it the status Pending, exactly when the status panel counts
\* it as pending, and exactly when the file list marks it undecided ("? ")
C39_PendingPlacesAgree ==
    \A p \in DOMAIN Files :
       FirstValid(Files[p]) # 0 =>
          /\ PendingByFilter(p) <=> CsvStatus(Files, p)[1] = Str("Pending")
          /\ PendingByFilter(p) <=> PanelOf(Files, p).pendingFiles = 1
          /\ PendingByFilter(p) <=> StatusIcon(Files[p]) = "? "
          /\ ViewMode = "list" /\ ViewFilter = "pending" =>
                \A i \in DOMAIN CurrentFileList :
                   FileList.Items[i][1] = "? "


----------------------------------------------------------------------------
(* A ScrollableList taken on its own: the calls of its methods on app.FileList *)

\* what the calls on the list leave alone
listFrame == <<Files, CurrentMatch, PendingDecision, ActivePane, ViewMode,
               ViewFilter, selectedNode, TreeViewType, PURLRanking,
               FileTree, expandedDirs, displayLines, TreeList,
               CurrentFileList, SelectedFileIndex, views, currentView, disk,
               saveResult, exports, userEvents, csvFile, exportKeys,
               defaultBranchCache, lookups, generatedWithAPIKey>>

\* the items a call of SetItems hands over: n rows
ListItems(n) == [i \in 1..n |-> <<"row", <<"1", "2", "3", "4", "5">>[i]>>]

\* a call of SetItems
ListSetItems ==
    /\ \E n \in 0..MaxItems : FileList' = SetItems(FileList, ListItems(n))
    /\ UNCHANGED listFrame

\* a call of Navigate
ListNavigate ==
    /\ \E direction \in {"up", "down"} :
          FileList' = Navigate(FileList, direction)
    /\ UNCHANGED listFrame

\* a call of NavigatePage; the index is followed as far as MaxItems below
\* zero and MaxItems beyond the last item
ListNavigatePage ==
    /\ \E direction \in {"up", "down"} :
          FileList' = NavigatePage(FileList, direction)
    /\ FileList'.SelectedIndex >= 0 - MaxItems
    /\ FileList'.SelectedIndex <= MaxItems + MaxItems
    /\ UNCHANGED listFrame

\* a call of Render with a view of some height
ListRender ==
    /\ \E viewHeight \in 0..MaxViewHeight :
          FileList' = Render(FileList, viewHeight)
    /\ UNCHANGED listFrame

InitList == InitStore({ViewStore}, {"all"})

NextList ==
    \/ ListSetItems
    \/ ListNavigate
    \/ ListNavigatePage
    \/ ListRender

SpecList == InitList /\ [][NextList]_vars

\* C40: after any calls of SetItems, Navigate, NavigatePage and Render with
\* a view height of zero or more, the selected index of a list with items is
\* the index of an item, the scroll offset lies between zero and the larger
\* of zero and the number of items less the view height, and
\* GetSelectedItem gives an item of a list with items
C40_ListIndicesInRange ==
    LET n == Len(FileList.Items)
        maxScroll == IF n - FileList.ViewHeight < 0 THEN 0
                     ELSE n - FileList.ViewHeight
    IN  /\ n > 0 => /\ 0 <= FileList.SelectedIndex
                    /\ FileList.SelectedIndex < n
        /\ 0 <= FileList.ScrollOffset
        /\ FileList.ScrollOffset <= maxScroll
        /\ n > 0 => \E i \in 1..n : GetSelectedItem(FileList) = FileList.Items[i]

====
